---- MODULE Spec2Model ----
(***************************************************************************)
(* Verification model of api-forge's generation orchestrator               *)
(* (api_forge/generators): CodeArtifact status life cycle, the generators' *)
(* validate/mark sequence, GenerationOrchestrator.generate_entity and      *)
(* generate_multiple, the write step and the route-registry patch.         *)
(*                                                                         *)
(* Artifacts are Python objects shared by reference between the local      *)
(* list `artifacts` and context.artifacts; the model keeps them in a heap  *)
(* `objs` and the lists hold indices into it.                              *)
(***************************************************************************)
EXTENDS Integers, Sequences, FiniteSets, TLC

(* ------------------------------ bounds -------------------------------- *)
\* at most this many templates render to malformed Python in one call
MaxMalformed == 2
\* longest name list handed to generate_multiple
MaxNames == 2
\* top-level calls made on one orchestrator
MaxCalls == 1
\* write operations invoked directly on one artifact list
MaxWrites == 2
\* route-registry patches invoked directly on one project
MaxPatches == 3

(* --------------------------- string helpers --------------------------- *)
\* Python: p in s
Contains(s, p) ==
    \E i \in 1..(Len(s) - Len(p) + 1) : SubSeq(s, i, i + Len(p) - 1) = p

\* Python: s.startswith(p)
StartsWith(s, p) == Len(s) >= Len(p) /\ SubSeq(s, 1, Len(p)) = p

UpperAlphabet == "ABCDEFGHIJKLMNOPQRSTUVWXYZ"
LowerAlphabet == "abcdefghijklmnopqrstuvwxyz"

LowerChar(c) ==
    IF \E i \in 1..26 : SubSeq(UpperAlphabet, i, i) = c
    THEN LET i == CHOOSE n \in 1..26 : SubSeq(UpperAlphabet, n, n) = c
         IN  SubSeq(LowerAlphabet, i, i)
    ELSE c

RECURSIVE Lower(_)
\* Python: s.lower()
Lower(s) == IF Len(s) = 0 THEN s
            ELSE LowerChar(SubSeq(s, 1, 1)) \o Lower(SubSeq(s, 2, Len(s)))

RECURSIVE ReplaceChar(_, _, _)
\* Python: s.replace(a, b) for single characters
ReplaceChar(s, a, b) ==
    IF Len(s) = 0 THEN s
    ELSE (IF SubSeq(s, 1, 1) = a THEN b ELSE SubSeq(s, 1, 1))
         \o ReplaceChar(SubSeq(s, 2, Len(s)), a, b)

(* ------------------------- project and inputs ------------------------- *)
\* ProjectConfig.name of the project under generation
ConfigName == "my-app"

\* GenerationOrchestrator.__init__: self.app_name
app_name == ReplaceChar(ConfigName, "-", "_")

\* entities the vocabulary defines; analysis of any other name raises
KnownEntities == {"Person", "User"}
EntityNames == KnownEntities \cup {"Ghost"}

\* what the file system holds at a path where no file exists
NoFile == [of |-> "", tpl |-> "<absent>", valid |-> FALSE]
\* content of a file some earlier tool or the user put on disk
UserContent == [of |-> "", tpl |-> "<user content>", valid |-> TRUE]

(* ------------------------------ artifacts ----------------------------- *)
ArtifactStatus == {"pending", "generated", "validated", "written", "error"}

\* the templates (or inline code builders) each generator renders, in the
\* order _generate_all_artifacts runs the generators
GeneratorKinds ==
    << <<"model">>, <<"schema">>, <<"repository">>, <<"service">>,
       <<"router">>, <<"factory", "e2e">> >>

ArtifactTypeOf(kind) ==
    CASE kind = "model"      -> "model"
      [] kind = "schema"     -> "schema"
      [] kind = "repository" -> "repository"
      [] kind = "service"    -> "service"
      [] kind = "router"     -> "router"
      [] kind = "factory"    -> "test"
      [] kind = "e2e"        -> "test"

\* destination path of each generator's artifact, relative to project root
ArtifactPath(kind, name) ==
    LET l == Lower(name) IN
    CASE kind = "model"      -> app_name \o "/models/" \o l \o ".py"
      [] kind = "schema"     -> app_name \o "/schemas/" \o l \o ".py"
      [] kind = "repository" -> app_name \o "/repositories/" \o l \o "_repository.py"
      [] kind = "service"    -> app_name \o "/services/" \o l \o "_service.py"
      [] kind = "router"     -> app_name \o "/api/v1/endpoints/" \o l \o ".py"
      [] kind = "factory"    -> "tests/factories/" \o l \o "_factory.py"
      [] kind = "e2e"        -> "tests/e2e/test_" \o l \o "_crud.py"

AllKinds == {"model", "schema", "repository", "service", "router", "factory", "e2e"}

AllPaths == {ArtifactPath(kd, n) : kd \in AllKinds, n \in KnownEntities}

\* rendered source text, kept abstract: which entity and template it came
\* from and whether it is syntactically valid Python
RenderedContent(kind, name, valid) == [of |-> name, tpl |-> kind, valid |-> valid]

\* CodeArtifact(...) as the generators construct it; status defaults to pending
CodeArtifact(kind, name, valid) ==
    [type        |-> ArtifactTypeOf(kind),
     path        |-> ArtifactPath(kind, name),
     content     |-> RenderedContent(kind, name, valid),
     entity_name |-> name,
     language    |-> "python",
     status      |-> "pending"]

\* ast.parse(artifact.content) succeeds
AstParses(content) == content.valid

mark_generated(a) == [a EXCEPT !.status = "generated"]
mark_validated(a) == [a EXCEPT !.status = "validated"]
mark_written(a)   == [a EXCEPT !.status = "written"]
mark_error(a)     == [a EXCEPT !.status = "error"]

\* BaseGenerator.validate_artifact: the artifact after the call
validate_artifact(a) ==
    IF a.language = "python"
    THEN IF AstParses(a.content) THEN mark_validated(a) ELSE mark_error(a)
    ELSE mark_validated(a)

\* BaseGenerator.validate_artifact: its return value
validate_artifact_result(a) ==
    IF a.language = "python" THEN AstParses(a.content) ELSE TRUE

(* ------------------------ route-aggregator file ----------------------- *)
\* {app}/api/v1/router.py exactly as ProjectTemplate._create_api_router
\* emits it, split at newlines
TemplateRouterFile ==
    << "\"\"\"",
       "API v1 router.",
       "",
       "Aggregates all API endpoints for version 1.",
       "\"\"\"",
       "",
       "from fastapi import APIRouter",
       "",
       "api_router = APIRouter()",
       "",
       "# Import and include endpoint routers here as they are generated",
       "# Example:",
       "# from " \o app_name \o ".api.v1.endpoints import users",
       "# api_router.include_router(users.router, prefix=\"/users\", tags=[\"users\"])",
       "",
       "",
       "@api_router.get(\"/\")",
       "async def root():",
       "    \"\"\"API root endpoint.\"\"\"",
       "    return {",
       "        \"message\": \"Welcome to {settings.PROJECT_NAME} API\",",
       "        \"version\": \"1.0.0\",",
       "        \"docs\": \"/api/v1/docs\"",
       "    }",
       "" >>

\* the route-aggregator file, relative to project root
RouterPath == app_name \o "/api/v1/router.py"

\* _update_router_registry: import_line
ImportLine(name) ==
    "from " \o app_name \o ".api.v1.endpoints import " \o Lower(name)

\* _update_router_registry: include_line
IncludeLine(name) ==
    "api_router.include_router(" \o Lower(name) \o ".router, prefix=\"/"
        \o Lower(name) \o "s\", tags=[\"" \o name \o "\"])"

\* a router file a developer maintains by hand, with one entity registered
RegisteredRouterFile ==
    << "from fastapi import APIRouter",
       ImportLine("Order"),
       "",
       "api_router = APIRouter()",
       IncludeLine("Order"),
       "" >>

\* a router file with no endpoint import and no registration call
BareRouterFile ==
    << "from fastapi import APIRouter",
       "",
       "api_router = APIRouter()",
       "" >>

\* router_file.exists() is false; an existing file always splits into at
\* least one line
NoRouterFile == <<>>

InitialRouterFiles ==
    {NoRouterFile, TemplateRouterFile, RegisteredRouterFile, BareRouterFile}

\* Python: import_line in content, where content = '\n'.join(lines) and
\* import_line holds no newline
InContent(lines, text) == \E i \in 1..Len(lines) : Contains(lines[i], text)

\* Python: lines.insert(index, line) with 0 <= index <= len(lines)
Insert(lines, index, line) ==
    SubSeq(lines, 1, index) \o <<line>> \o SubSeq(lines, index + 1, Len(lines))

IsEndpointImport(line) == StartsWith(line, "from") /\ Contains(line, "endpoints import")
IsIncludeCall(line) == Contains(line, "api_router.include_router")

\* the greatest member of a set of line numbers, 0 for the empty set
LastOf(hits) ==
    IF hits = {} THEN 0 ELSE CHOOSE i \in hits : \A h \in hits : h <= i

\* Python: import_index, the last i + 1 over enumerate(lines) whose line
\* is an endpoint import, 0 when there is none
ImportIndex(lines) == LastOf({i \in 1..Len(lines) : IsEndpointImport(lines[i])})

\* Python: include_index, likewise for registration calls
IncludeIndex(lines) == LastOf({i \in 1..Len(lines) : IsIncludeCall(lines[i])})

\* _update_router_registry: the file after the call (a missing file stays missing)
UpdatedRouterFile(file, name) ==
    IF file = NoRouterFile THEN file
    ELSE IF InContent(file, ImportLine(name)) THEN file
    ELSE
      LET import_index == ImportIndex(file)
          lines1 == IF import_index > 0
                    THEN Insert(file, import_index, ImportLine(name))
                    ELSE file
          include_index == IncludeIndex(lines1)
      IN  IF include_index > 0
          THEN Insert(lines1, include_index, IncludeLine(name))
          ELSE lines1 \o <<"", IncludeLine(name)>>

\* _update_router_registry as a whole: an OSError of write_text is caught
\* and leaves the file as it was
PatchedRouterFile(file, name, locked) ==
    IF RouterPath \in locked THEN file ELSE UpdatedRouterFile(file, name)

(* ------------------------------ exceptions ---------------------------- *)
\* APIForgeException(message, details); a details key the raiser did not
\* set is "" (or <<>> for the list-valued key)
Details(entity, error, errors) == [entity |-> entity, error |-> error, errors |-> errors]

\* str(e) of an APIForgeException: Exception.__init__ got the message only
Str(e) == e.message

\* analyzer/fetcher failure for a name the vocabulary does not define
EntityNotFound(name) ==
    [message |-> "Entity '" \o name \o "' not found in Schema.org vocabulary",
     details |-> Details("", "", <<>>)]

\* a validation gate that lets every artifact pass
PassesValidationAlways(a) == TRUE

\* _validate_artifacts: the test an artifact must pass
PassesValidation(a) == a.status = "validated"

\* _validate_artifacts: the errors list
ValidationErrors(arts) ==
    LET bad == SelectSeq(arts, LAMBDA a : ~PassesValidation(a))
    IN  [i \in 1..Len(bad) |-> bad[i].path \o ": Not validated"]

\* _validate_artifacts: the error it raises when the list is not empty
ValidationFailed(errors) ==
    [message |-> "Artifact validation failed", details |-> Details("", "", errors)]

\* generate_entity: except Exception as e: raise CodeGenerationError(...)
WrappedError(name, e) ==
    [message |-> "Failed to generate entity " \o name \o ": " \o Str(e),
     details |-> Details(name, Str(e), <<>>)]

NoError == [message |-> "", details |-> Details("", "", <<>>)]

(* ------------------------------ write step ---------------------------- *)
\* GenerationOrchestrator._write_artifact and the try block of
\* BaseGenerator.write_artifact: mkdir, write_text, mark_written; an OSError
\* marks the artifact errored.  Result: the disk and the artifact.
WriteOne(disk, a, locked) ==
    IF a.path \in locked
    THEN [disk |-> disk, art |-> mark_error(a)]
    ELSE [disk |-> [disk EXCEPT ![a.path] = a.content], art |-> mark_written(a)]

\* a write that overwrites an existing file although force is off
WriteRegardless(disk, a, f, locked) == WriteOne(disk, a, locked)

\* one iteration of the loop of _write_artifacts, and the whole of
\* BaseGenerator.write_artifact: skip an existing file unless forced
WriteUnlessExists(disk, a, f, locked) ==
    IF disk[a.path] # NoFile /\ ~f
    THEN [disk |-> disk, art |-> a]
    ELSE WriteOne(disk, a, locked)

RECURSIVE WriteLoop(_, _, _, _, _)
\* _write_artifacts: for artifact in artifacts, in list order.  ids index
\* the heap; result: the disk and the heap after the loop.
WriteLoop(ids, disk, heap, f, locked) ==
    IF ids = <<>> THEN [disk |-> disk, heap |-> heap]
    ELSE LET r == WriteUnlessExists(disk, heap[Head(ids)], f, locked)
         IN  WriteLoop(Tail(ids), r.disk, [heap EXCEPT ![Head(ids)] = r.art], f, locked)

(* -------------------------- vocabulary fetcher ------------------------ *)
\* SchemaOrgFetcher.CACHE_TTL = timedelta(days=7); the clock counts days
CACHE_TTL == 7

\* invocations of the tool that share one cache directory
Invocations == {"a", "b"}

\* names passed to fetch_entity: a class of the vocabulary and a name that
\* is not one
FetchNames == {"Person", "Ghost"}

\* nodes of the vocabulary's @graph
\* (@id, @type, schema:domainIncludes, schema:rangeIncludes, rdfs:subClassOf)
SubClassNode(name, parents) ==
    [id |-> "schema:" \o name, type |-> "rdfs:Class", domain |-> {},
     range |-> <<>>, subClassOf |-> parents]
ClassNode(name) == SubClassNode(name, <<>>)
RangedPropertyNode(name, domain, range) ==
    [id |-> "schema:" \o name, type |-> "rdf:Property", domain |-> domain,
     range |-> range, subClassOf |-> <<>>]
PropertyNode(name, domain) == RangedPropertyNode(name, domain, <<"schema:Text">>)

\* the @graph the vocabulary host serves in a release
Graph(release) ==
    IF release = 1
    THEN <<ClassNode("Person"), PropertyNode("name", {"schema:Person"}),
           PropertyNode("isbn", {"schema:Book"})>>
    ELSE <<ClassNode("Person"), PropertyNode("name", {"schema:Person"}),
           PropertyNode("isbn", {"schema:Book"}),
           PropertyNode("email", {"schema:Person"})>>

\* self._vocabulary = None
NoVocabulary == [kind |-> "none", hasGraph |-> FALSE, graph |-> <<>>]

\* the JSON document {}: a dict without "@graph"
EmptyDocument == [kind |-> "empty", hasGraph |-> FALSE, graph |-> <<>>]

Vocabulary(release) == [kind |-> "vocab", hasGraph |-> TRUE, graph |-> Graph(release)]

\* documents the vocabulary host answers a GET with: its current release,
\* or an empty JSON object
Documents == {Vocabulary(2), EmptyDocument}

\* Python truth value of self._vocabulary: None and {} are false
Truthy(v) == v.kind = "vocab"

\* a file of the cache directory: absent, unparseable (truncated by a crash
\* during write_text), or complete
NoCacheFile == [kind |-> "missing"]
CorruptFile == [kind |-> "corrupt"]
DataFile(v) == [kind |-> "data", vocab |-> v]
MetaFile(t) == [kind |-> "meta", cached_at |-> t]

\* a check that forgets the age of the sidecar
CacheUsableForever(data, meta, t) ==
    /\ data.kind # "missing"
    /\ meta.kind # "missing"
    /\ meta.kind = "meta"
    /\ data.kind = "data"

\* _load_vocabulary, "Check cache": both files exist, the sidecar parses and
\* is at most CACHE_TTL old, and the data file parses (any exception: pass)
CacheUsable(data, meta, t) ==
    /\ data.kind # "missing"
    /\ meta.kind # "missing"
    /\ meta.kind = "meta"
    /\ t - meta.cached_at <= CACHE_TTL
    /\ data.kind = "data"

\* _load_vocabulary: where the vocabulary of this call comes from
LoadPlan(mem, force_refresh, data, meta, t) ==
    IF Truthy(mem) /\ ~force_refresh THEN "memory"
    ELSE IF ~force_refresh /\ CacheUsable(data, meta, t) THEN "disk"
    ELSE "network"

FetchReturned(bundle) == [status |-> "returned", bundle |-> bundle, message |-> ""]
FetchRaised(message) == [status |-> "raised", bundle |-> <<>>, message |-> message]

\* indices of the class nodes named entity_id, in graph order
ClassMatches(graph, entity_id) ==
    {i \in 1..Len(graph) : graph[i].id = entity_id /\ graph[i].type = "rdfs:Class"}

\* a property node whose schema:domainIncludes names entity_id
AppliesTo(item, entity_id) ==
    /\ item.type \in {"rdf:Property", "schema:Property"}
    /\ entity_id \in item.domain

\* fetch_entity after the vocabulary is loaded: the bundle returned or the
\* SchemaOrgError raised
ExtractEntity(vocab, name) ==
    IF ~vocab.hasGraph
    THEN FetchRaised("Invalid Schema.org vocabulary structure")
    ELSE LET entity_id == "schema:" \o name
             found == ClassMatches(vocab.graph, entity_id)
         IN  IF found = {}
             THEN FetchRaised("Entity '" \o name \o "' not found in Schema.org vocabulary")
             ELSE LET first == CHOOSE i \in found : \A m \in found : i <= m
                  IN  FetchReturned(
                          [graph |-> vocab.graph,
                           entity |-> vocab.graph[first],
                           properties |-> SelectSeq(vocab.graph,
                                LAMBDA item : AppliesTo(item, entity_id))])

\* names of the per-entity cache files of entity_name
EntityCacheFiles(name) == {name \o ".json", name \o ".meta"}

\* clear_cache(entity_name): unlink the two files of that entity
ClearedEntity(files, name) == files \ EntityCacheFiles(name)

\* no call has been made
NoFetch == [name |-> "", result |-> [status |-> "none", bundle |-> <<>>, message |-> ""]]
NoArgs == [entity_name |-> "", force_refresh |-> FALSE]
NoObservation ==
    [served |-> "none", force |-> FALSE, mem |-> "none",
     data |-> "missing", meta |-> "missing", age |-> 0, agree |-> TRUE]

(* --------------------------- entity analyzer -------------------------- *)
\* the vocabulary the analyzer's fetcher serves: Thing with one property,
\* two classes without properties of their own below it, a class whose
\* parent is not in the vocabulary, a class with two parents, and two
\* classes that name each other as parent
AnalyzerGraph ==
    <<ClassNode("Thing"),
      PropertyNode("name", {"schema:Thing"}),
      SubClassNode("Intangible", <<"schema:Thing">>),
      SubClassNode("Quantity", <<"rdfs:Resource", "schema:Intangible">>),
      SubClassNode("Root", <<>>),
      SubClassNode("Leaf", <<"schema:Root", "schema:Thing">>),
      SubClassNode("Orphan", <<"schema:Missing">>),
      SubClassNode("Ring", <<"schema:Loop">>),
      SubClassNode("Loop", <<"schema:Ring">>)>>

AnalyzerVocabulary == [kind |-> "vocab", hasGraph |-> TRUE, graph |-> AnalyzerGraph]

\* names passed to analyze_entity and analyze_multiple: a class without
\* properties, a class with one, and a name that is no class
AnalyzerNames == {"Root", "Thing", "Ghost"}

\* names passed to get_entity_hierarchy
HierarchyNames == {"Intangible", "Leaf", "Orphan", "Ghost", "Ring"}

\* x.replace("schema:", "") for an identifier that starts with the prefix
StripSchema(id) == SubSeq(id, 8, Len(id))

RECURSIVE SchemaNames(_)
\* parser: the identifiers that start with "schema:", prefix removed, in order
SchemaNames(ids) ==
    IF ids = <<>> THEN <<>>
    ELSE IF StartsWith(Head(ids), "schema:")
         THEN <<StripSchema(Head(ids))>> \o SchemaNames(Tail(ids))
         ELSE SchemaNames(Tail(ids))

NoTypeInfo == [kind |-> "none"]
NoMetadata == [ai_enhanced |-> FALSE, unique_fields |-> <<>>, indexed_fields |-> <<>>,
               immutable_fields |-> <<>>, business_rules |-> <<>>,
               security_notes |-> <<>>]

\* SchemaOrgParser._parse_property
ParseProperty(node) ==
    [name |-> StripSchema(node.id), expected_types |-> SchemaNames(node.range),
     type_info |-> NoTypeInfo]

\* SchemaOrgParser.parse: the SchemaEntity of a fetcher bundle
ParseEntity(bundle) ==
    [name |-> StripSchema(bundle.entity.id),
     parent_types |-> SchemaNames(bundle.entity.subClassOf),
     properties |-> [i \in 1..Len(bundle.properties) |-> ParseProperty(bundle.properties[i])],
     relationships |-> <<>>,
     metadata |-> NoMetadata]

\* TypeMapper.resolve_type: a TypeInfo object
ResolveType(property) ==
    [kind |-> "TypeInfo",
     is_relationship |-> /\ property.expected_types # <<>>
                         /\ Head(property.expected_types) \notin {"Text", "Number", "Date"}]

\* analyze_entity: property.type_info = type_info, for every property
WithTypeInfo(entity) ==
    [entity EXCEPT !.properties =
        [i \in 1..Len(entity.properties) |->
            [entity.properties[i] EXCEPT !.type_info = ResolveType(entity.properties[i])]]]

\* SchemaProperty.property_type: with type_info set it calls .get on it, and
\* a TypeInfo object has no .get
PropertyTypeRaises(property) == property.type_info # NoTypeInfo

\* RelationshipResolver.resolve_all_relationships on an entity whose
\* properties carry type_info: the list, or the exception that leaves it
ResolveAllRelationships(entity) ==
    IF entity.properties # <<>> /\ PropertyTypeRaises(Head(entity.properties))
    THEN [status |-> "raised", error |-> "AttributeError", value |-> <<>>]
    ELSE [status |-> "returned", error |-> "", value |-> <<>>]

\* EntityAnalysis(entity=entity): every hint collection empty
BareAnalysis(entity) ==
    [entity |-> entity, suggested_indexes |-> <<>>, unique_fields |-> <<>>,
     immutable_fields |-> <<>>, business_rules |-> <<>>,
     security_considerations |-> <<>>, ai_enhanced |-> FALSE]

\* what the AI call of SchemaAnalystAgent.analyze can do: answer with hints,
\* or fail (network, provider error or invalid key, unparseable JSON, JSON of
\* another shape)
AIAnswer == [kind |-> "answer", unique_fields |-> <<"id">>, indexed_fields |-> <<"id">>,
             immutable_fields |-> <<>>, business_rules |-> <<"rule">>,
             security_notes |-> <<>>]
AIFailures == {"network", "provider", "parse", "shape"}
AIOutcomes == {AIAnswer} \cup {[kind |-> f] : f \in AIFailures}

\* the outcomes to consider for an analyzer: without AI no call is made
AIOutcomesOf(enabled) == IF enabled THEN AIOutcomes ELSE {AIAnswer}

\* an agent without the except clause
AgentAnalyzeUnguarded(entity, ai) ==
    IF ai.kind = "answer"
    THEN [status |-> "returned",
          analysis |-> [BareAnalysis(entity) EXCEPT
                            !.suggested_indexes = ai.indexed_fields,
                            !.unique_fields = ai.unique_fields,
                            !.immutable_fields = ai.immutable_fields,
                            !.business_rules = ai.business_rules,
                            !.security_considerations = ai.security_notes]]
    ELSE [status |-> "raised", analysis |-> BareAnalysis(entity)]

\* SchemaAnalystAgent.analyze: the analysis built from the answer; on any
\* exception, EntityAnalysis(entity=entity)
AgentAnalyze(entity, ai) ==
    IF ai.kind = "answer"
    THEN [status |-> "returned",
          analysis |-> [BareAnalysis(entity) EXCEPT
                            !.suggested_indexes = ai.indexed_fields,
                            !.unique_fields = ai.unique_fields,
                            !.immutable_fields = ai.immutable_fields,
                            !.business_rules = ai.business_rules,
                            !.security_considerations = ai.security_notes]]
    ELSE [status |-> "returned", analysis |-> BareAnalysis(entity)]

\* SchemaOrgAnalyzer._apply_ai_insights: entity.metadata = {...}
ApplyAIInsights(entity, analysis) ==
    [entity EXCEPT !.metadata =
        [ai_enhanced |-> TRUE,
         unique_fields |-> analysis.unique_fields,
         indexed_fields |-> analysis.suggested_indexes,
         immutable_fields |-> analysis.immutable_fields,
         business_rules |-> analysis.business_rules,
         security_notes |-> analysis.security_considerations]]

AnalysisReturned(analysis) == [status |-> "returned", error |-> "", analysis |-> analysis]
AnalysisRaised(error) == [status |-> "raised", error |-> error, analysis |-> <<>>]

\* analyze_entity(entity_name, use_ai=use_ai) given what fetch_entity gave
\* and what the AI call would do; enabled is self.ai_enabled
AnalyzeEntityResult(fetch, use_ai, enabled, ai) ==
    IF fetch.status = "raised" THEN AnalysisRaised("SchemaOrgError")
    ELSE LET entity == WithTypeInfo(ParseEntity(fetch.bundle))
             resolved == ResolveAllRelationships(entity)
         IN  IF resolved.status = "raised" THEN AnalysisRaised(resolved.error)
             ELSE LET e == [entity EXCEPT !.relationships = resolved.value] IN
                  IF use_ai /\ enabled
                  THEN LET a == AgentAnalyze(e, ai) IN
                       IF a.status = "raised" THEN AnalysisRaised("AIError")
                       ELSE AnalysisReturned(
                               [a.analysis EXCEPT !.entity = ApplyAIInsights(e, a.analysis)])
                  ELSE AnalysisReturned(BareAnalysis(e))

\* a relationship of an entity (RelationshipInfo)
Relationship(property_name, target) ==
    [property_name |-> property_name, target_entity |-> target]

\* a filter that keeps every relationship
ValidateRelationshipAlways(relationship, all_entities) == TRUE

\* RelationshipResolver.validate_relationship
ValidateRelationship(relationship, all_entities) ==
    relationship.target_entity \in DOMAIN all_entities

\* SchemaOrgAnalyzer._validate_all_relationships: each entity keeps, in
\* order, the relationships that validate
ValidateAllRelationships(entities) ==
    [n \in DOMAIN entities |->
        [entities[n] EXCEPT !.relationships =
            SelectSeq(entities[n].relationships,
                      LAMBDA r : ValidateRelationship(r, entities))]]

(* -------------------------------- state ------------------------------- *)
VARIABLES
    fs,                \* project files: path -> content or NoFile
    unwritable,        \* paths at which write_text raises OSError
    routerFile,        \* lines of {app}/api/v1/router.py, or NoRouterFile
    generate_tests,    \* config.testing.generate_tests
    pc,                \* where the running call stands
    mode,              \* which entry point built the artifact list
    caller,            \* "generate_multiple" while its loop runs
    entity_name, force, write_files,   \* arguments of generate_entity
    objs,              \* heap of the CodeArtifact objects of this call
    artifacts,         \* local list of _generate_all_artifacts (heap ids)
    context_artifacts, \* context.artifacts (heap ids)
    k,                 \* generator about to run or running, 1..6
    cur,               \* artifacts the running generator has constructed
    j,                 \* position of TestGenerator's validation loop in cur
    outcome,           \* what the last finished top-level call gave its caller
    names, idx, results,   \* generate_multiple: argument, loop position, map
    attempted,         \* history: generate_entity calls made by the loop
    lastOp,            \* history: the last operation and what it did
    calls, ops         \* counters: top-level calls, direct invocations

\* the vocabulary fetcher: one cache directory, the invocations of the tool
\* that share it, and the clock
VARIABLES
    now,               \* wall clock, in days
    cacheFile,         \* schemaorg-vocabulary.json
    metadataFile,      \* schemaorg-vocabulary.meta
    entityFiles,       \* names of the other *.json / *.meta files in cache_dir
    fpc,               \* per invocation: where its fetch_entity call stands
    vocabulary,        \* per invocation: SchemaOrgFetcher._vocabulary
    fargs,             \* per invocation: arguments of the running call
    dataWriter,        \* history: the invocation whose download wrote
                       \* cacheFile and has not written its sidecar yet
    pairAgrees,        \* history: cacheFile and metadataFile are complete
                       \* and were written by the same download
    fetched,           \* per invocation: name and result of its last call
    lastFetch          \* history: what the fetch_entity call just made found

orchVars == <<fs, unwritable, routerFile, generate_tests, pc, mode, caller,
              entity_name, force, write_files, objs, artifacts, context_artifacts,
              k, cur, j, outcome, names, idx, results, attempted, lastOp,
              calls, ops>>

fetcherVars == <<now, cacheFile, metadataFile, entityFiles, fpc, vocabulary,
                 fargs, dataWriter, pairAgrees, fetched, lastFetch>>

\* the entity analyzer (one SchemaOrgAnalyzer, one task)
VARIABLES
    ai_enabled,        \* self.ai_enabled
    vocabLoaded,       \* its fetcher holds the vocabulary in memory
    analyzed_entities, \* self.analyzed_entities: name -> entity
    apc,               \* where the running analyzer call stands
    acall,             \* the running call: arguments and locals
    alast              \* history: the analyzer call that ended last

analyzerVars == <<ai_enabled, vocabLoaded, analyzed_entities, apc, acall, alast>>

\* the circuit breaker of a generated project and the requests that use it
VARIABLES
    failure_threshold, \* self.failure_threshold
    recovery_timeout,  \* self.recovery_timeout, in seconds
    failure_count,     \* self.failure_count
    last_failure_time, \* self.last_failure_time
    state,             \* self.state: "closed", "open" or "half_open"
    bnow,              \* datetime.now(timezone.utc), in seconds
    inflight,          \* make_request calls waiting for their response
    flights,           \* those calls by kind: admitted half-open or not, client closed or not
    client,            \* HTTPClientManager.client: "none" or "open"
    lastCall           \* history: the breaker step taken last

breakerVars == <<failure_threshold, recovery_timeout, failure_count,
                 last_failure_time, state, bnow, inflight, flights, client, lastCall>>

\* the rate limiter of a generated project
VARIABLES
    rate_limit,        \* settings.RATE_LIMIT_PER_MINUTE
    requests,          \* self.requests: client_ip -> times of the admitted calls kept
    lnow,              \* datetime.now(timezone.utc), in ticks
    granted,           \* history: client_ip -> times of every admitted call
    lastCheck          \* history: the is_allowed call made last

limiterVars == <<rate_limit, requests, lnow, granted, lastCheck>>

\* GenerationOrchestrator.get_generation_summary
VARIABLES
    self_artifacts,  \* self.artifacts, the orchestrator's own list
    lastSummary      \* the last summary returned and what had been produced

summaryVars == <<self_artifacts, lastSummary>>

\* the generated application's get_db dependency
VARIABLES
    session          \* per request: where get_db stands and what it did

sessionVars == <<session>>

\* json_metadata: JSONMetadataAnalyzer and its JSONToEntityConverter
VARIABLES
    jmetadata,           \* analyzer.metadata: the loaded document, or none
    jai_enabled,         \* analyzer.ai_enabled
    entity_cache,        \* converter.entity_cache: name -> SchemaEntity
    janalyzed_entities,  \* the keys of analyzer.analyzed_entities
    entity_analyses,     \* analyzer.entity_analyses: name -> EntityAnalysis
    jlast                \* the last call on the analyzer or converter

jsonVars == <<jmetadata, jai_enabled, entity_cache, janalyzed_entities,
              entity_analyses, jlast>>

\* cli/commands/generate.py: one invocation of the command line
VARIABLES
    cli              \* the running or finished `api-forge generate ...`

cliVars == <<cli>>

auxVars == <<summaryVars, sessionVars, jsonVars, cliVars>>

serviceVars == <<fetcherVars, analyzerVars, breakerVars, limiterVars>>

componentVars == <<fetcherVars, analyzerVars, breakerVars, limiterVars, auxVars>>

notFetcherVars == <<orchVars, analyzerVars, breakerVars, limiterVars, auxVars>>
notAnalyzerVars == <<orchVars, fetcherVars, breakerVars, limiterVars, auxVars>>
notBreakerVars == <<orchVars, fetcherVars, analyzerVars, limiterVars, auxVars>>
notLimiterVars == <<orchVars, fetcherVars, analyzerVars, breakerVars, auxVars>>

notSummaryVars == <<orchVars, serviceVars, sessionVars, jsonVars, cliVars>>
notSessionVars == <<orchVars, serviceVars, summaryVars, jsonVars, cliVars>>
notJsonVars == <<orchVars, serviceVars, summaryVars, sessionVars, cliVars>>
notCliVars == <<orchVars, serviceVars, summaryVars, sessionVars, jsonVars>>

vars == <<orchVars, componentVars>>

diskVars == <<fs, unwritable, routerFile, generate_tests>>
callVars == <<entity_name, force, write_files>>
genVars == <<objs, artifacts, context_artifacts, k, cur, j>>
multiVars == <<names, idx, results, attempted>>

\* lastOp: op names the action taken last; force, skipped and written
\* describe a write step, fileBefore a registry patch, error a raise
Op(op, f, skipped, written, fileBefore, error) ==
    [op |-> op, force |-> f, skipped |-> skipped, written |-> written,
     fileBefore |-> fileBefore, error |-> error]

PlainOp(op) == Op(op, FALSE, {}, {}, NoRouterFile, NoError)

NoOutcome == [status |-> "none", value |-> <<>>, map |-> <<>>, error |-> NoError]

\* files already on disk when the orchestrator is constructed
InitialDisks ==
    { [p \in AllPaths |-> NoFile],
      [p \in AllPaths |->
          IF p \in {ArtifactPath("model", "Person"), ArtifactPath("e2e", "Person")}
          THEN UserContent ELSE NoFile] }

InitialUnwritable == { {}, {ArtifactPath("schema", "Person")} }

\* no invocation is running and the cache directory is empty
FetcherIdle ==
    /\ now = 0
    /\ cacheFile = NoCacheFile
    /\ metadataFile = NoCacheFile
    /\ entityFiles = {}
    /\ fpc = [p \in Invocations |-> "idle"]
    /\ vocabulary = [p \in Invocations |-> NoVocabulary]
    /\ fargs = [p \in Invocations |-> NoArgs]
    /\ dataWriter = "none"
    /\ pairAgrees = FALSE
    /\ fetched = [p \in Invocations |-> NoFetch]
    /\ lastFetch = NoObservation

NoCall == [op |-> "none", name |-> "", names |-> <<>>, use_ai |-> FALSE, i |-> 1,
           results |-> <<>>, log |-> <<>>, hierarchy |-> <<>>, current |-> <<>>]

NoAnalyzerOp ==
    [op |-> "none", name |-> "", names |-> <<>>, status |-> "none", error |-> "",
     value |-> <<>>, input |-> <<>>, ai |-> "unused", log |-> <<>>, lookup_failed |-> ""]

\* a SchemaOrgAnalyzer is constructed without an AIConfig; no call has run
AnalyzerIdle ==
    /\ ai_enabled = FALSE
    /\ vocabLoaded = FALSE
    /\ analyzed_entities = <<>>
    /\ apc = "idle"
    /\ acall = NoCall
    /\ alast = NoAnalyzerOp

\* self.last_failure_time: None, or the time of the last record_failure
NoFailureTime == [set |-> FALSE, at |-> 0]
FailureTime(t) == [set |-> TRUE, at |-> t]

NoBreakerCall ==
    [op |-> "none", state_before |-> "closed", count_before |-> 0,
     waited |-> FALSE, elapsed |-> 0, executed |-> FALSE, sent |-> FALSE]

\* a make_request call between client.request and its response: whether
\* can_execute admitted it in half_open, and whether the client it uses has
\* been closed since
FlightKinds == [trial : BOOLEAN, closed : BOOLEAN]
NoFlights == [f \in FlightKinds |-> 0]

\* CircuitBreaker(1, 1) as constructed; no request made
BreakerIdle ==
    /\ failure_threshold = 1
    /\ recovery_timeout = 1
    /\ failure_count = 0
    /\ last_failure_time = NoFailureTime
    /\ state = "closed"
    /\ bnow = 0
    /\ inflight = 0
    /\ flights = NoFlights
    /\ client = "none"
    /\ lastCall = NoBreakerCall

\* the caller addresses the limiter sees
ClientIPs == {"10.0.0.1", "10.0.0.2"}

NoCheck == [client_ip |-> "", at |-> 0, before |-> 0, allowed |-> FALSE]

\* RateLimiter() as constructed: self.requests = {}
LimiterIdle ==
    /\ rate_limit = 1
    /\ requests = <<>>
    /\ lnow = 0
    /\ granted = [ip \in ClientIPs |-> <<>>]
    /\ lastCheck = NoCheck

NoSummary ==
    [op |-> "none", value |-> <<>>, produced |-> 0]

\* GenerationOrchestrator.__init__: self.artifacts = []; no summary asked
SummaryIdle ==
    /\ self_artifacts = <<>>
    /\ lastSummary = NoSummary

\* the orchestrator's summary and the parts outside the generator package
\* in their constructed state
\* the requests the generated application serves at the same time
Requests == {"r1", "r2"}

NoException == [kind |-> "none", origin |-> "none"]

\* no request has asked for a session
NoSession ==
    [pc |-> "idle", handler |-> "none", log |-> <<>>, pending |-> NoException,
     propagated |-> NoException]

SessionIdle ==
    session = [r \in Requests |-> NoSession]

\* an empty dict
EmptyMap == <<>>

NoJsonCall ==
    [op |-> "none", doc |-> "none", name |-> "", use_ai |-> FALSE, ai |-> <<>>,
     returned |-> EmptyMap]

\* JSONMetadataAnalyzer() as constructed, without a file and without AI
JsonIdle ==
    /\ jmetadata = "none"
    /\ jai_enabled = FALSE
    /\ entity_cache = EmptyMap
    /\ janalyzed_entities = {}
    /\ entity_analyses = EmptyMap
    /\ jlast = NoJsonCall

\* no command has been invoked
NoInvocation ==
    [command |-> "none", cfg |-> "none", entities |-> <<>>, i |-> 1,
     success_count |-> 0, failed |-> {}, reports |-> <<>>, running |-> FALSE,
     exit_code |-> 0]

CliIdle ==
    cli = NoInvocation

AuxIdle ==
    /\ SummaryIdle
    /\ SessionIdle
    /\ JsonIdle
    /\ CliIdle

\* the components the orchestrator's specifications leave alone
ComponentsIdle ==
    /\ FetcherIdle
    /\ AnalyzerIdle
    /\ BreakerIdle
    /\ LimiterIdle

\* the orchestrator is constructed; no call is running and none has run
OrchestratorIdle ==
    /\ pc = "idle"
    /\ mode = "none"
    /\ caller = "none"
    /\ entity_name = ""
    /\ force = FALSE
    /\ write_files = FALSE
    /\ objs = <<>>
    /\ artifacts = <<>>
    /\ context_artifacts = <<>>
    /\ k = 1
    /\ cur = <<>>
    /\ j = 1
    /\ outcome = NoOutcome
    /\ names = <<>>
    /\ idx = 1
    /\ results = <<>>
    /\ attempted = <<>>
    /\ lastOp = PlainOp("none")
    /\ calls = 0
    /\ ops = 0

\* no call is running and none has run
Quiescent ==
    /\ OrchestratorIdle
    /\ ComponentsIdle
    /\ AuxIdle

\* a project nothing has been generated into, and an idle orchestrator
ProjectUntouched ==
    /\ fs = [p \in AllPaths |-> NoFile]
    /\ unwritable = {}
    /\ routerFile = TemplateRouterFile
    /\ generate_tests = TRUE
    /\ OrchestratorIdle

\* an orchestrator constructed on a project, before any call
Init ==
    /\ fs \in InitialDisks
    /\ unwritable = {}
    /\ routerFile = TemplateRouterFile
    /\ generate_tests \in BOOLEAN
    /\ Quiescent

\* the project before the write operations are driven directly
InitWrite ==
    /\ fs \in InitialDisks
    /\ unwritable \in InitialUnwritable
    /\ routerFile = TemplateRouterFile
    /\ generate_tests \in BOOLEAN
    /\ Quiescent

\* the project before the route-registry patch is driven directly
InitRegistry ==
    /\ fs = [p \in AllPaths |-> NoFile]
    /\ unwritable \in {{}, {RouterPath}}
    /\ routerFile \in InitialRouterFiles
    /\ generate_tests = TRUE
    /\ Quiescent

(* ------------------------------- helpers ------------------------------ *)
\* the artifact objects a list of heap ids refers to
Deref(ids, heap) == [i \in 1..Len(ids) |-> heap[ids[i]]]

Malformed(heap) == Cardinality({i \in 1..Len(heap) : ~heap[i].content.valid})

\* an orchestrator that forgets context.add_artifact
add_artifacts_forgotten(ctx, new) == ctx

\* GenerationContext.add_artifact, once per artifact the generator returned
add_artifacts(ctx, new) == ctx \o new

\* a loop that stops at the first failing entity (break, not continue)
MultipleBreak(i, ns) == Len(ns) + 1

\* generate_multiple: the loop position after a generate_entity call that
\* raised CodeGenerationError (except ...: continue)
MultipleContinue(i, ns) == i + 1

\* a generate_entity that writes whatever validation and the caller say
AfterGenerationWrites(errors, w) == "write"

\* generate_entity after _generate_all_artifacts: _validate_artifacts
\* raises on any error; then the files are written only if write_files
AfterGeneration(errors, w) ==
    IF errors # <<>> THEN "raise"
    ELSE IF w THEN "write"
    ELSE "return"

\* control leaves generate_entity with res (returned value or raised error)
Finish(res) ==
    IF caller = "generate_multiple"
    THEN /\ attempted' = Append(attempted,
                [name |-> entity_name, ok |-> res.status = "returned"])
         /\ results' = IF res.status = "returned"
                       THEN (entity_name :> res.value) @@ results
                       ELSE results
         /\ idx' = IF res.status = "returned" THEN idx + 1
                   ELSE MultipleContinue(idx, names)
         /\ pc' = "multiple_loop"
         /\ UNCHANGED <<outcome, names, caller>>
    ELSE /\ pc' = "idle"
         /\ outcome' = res
         /\ UNCHANGED <<names, idx, results, attempted, caller>>

Returned(value) == [status |-> "returned", value |-> value, map |-> <<>>, error |-> NoError]
Raised(e) == [status |-> "raised", value |-> <<>>, map |-> <<>>, error |-> e]

\* generate_entity up to its try block: arguments bound, nothing built yet
StartGenerateEntity(name, f, w) ==
    /\ entity_name' = name
    /\ force' = f
    /\ write_files' = w
    /\ mode' = "generate_entity"
    /\ objs' = <<>>
    /\ artifacts' = <<>>
    /\ context_artifacts' = <<>>
    /\ k' = 1
    /\ cur' = <<>>
    /\ j' = 1
    /\ pc' = "analyze"

(* ------------------------------- actions ------------------------------ *)
\* a caller (the CLI) invokes generate_entity(name, force, write_files)
CallGenerateEntity ==
    /\ pc = "idle"
    /\ calls < MaxCalls
    /\ \E name \in EntityNames, f \in BOOLEAN, w \in BOOLEAN :
          StartGenerateEntity(name, f, w)
    /\ caller' = "none"
    /\ outcome' = NoOutcome
    /\ names' = <<>>
    /\ idx' = 1
    /\ results' = <<>>
    /\ attempted' = <<>>
    /\ calls' = calls + 1
    /\ ops' = 0
    /\ lastOp' = PlainOp("call_generate_entity")
    /\ UNCHANGED diskVars
    /\ UNCHANGED componentVars

\* a caller invokes generate_multiple(entity_names, force)
CallGenerateMultiple ==
    /\ pc = "idle"
    /\ calls < MaxCalls
    /\ \E n \in 0..MaxNames : \E ns \in [1..n -> EntityNames], f \in BOOLEAN :
          /\ names' = ns
          /\ force' = f
    /\ idx' = 1
    /\ results' = <<>>
    /\ attempted' = <<>>
    /\ caller' = "generate_multiple"
    /\ pc' = "multiple_loop"
    /\ mode' = "none"
    /\ entity_name' = ""
    /\ write_files' = TRUE
    /\ objs' = <<>>
    /\ artifacts' = <<>>
    /\ context_artifacts' = <<>>
    /\ k' = 1
    /\ cur' = <<>>
    /\ j' = 1
    /\ outcome' = NoOutcome
    /\ calls' = calls + 1
    /\ ops' = 0
    /\ lastOp' = PlainOp("call_generate_multiple")
    /\ UNCHANGED diskVars
    /\ UNCHANGED componentVars

\* generate_multiple: the for statement; starts the next generate_entity
\* (write_files keeps its default) or returns the results map
MultipleLoop ==
    /\ pc = "multiple_loop"
    /\ IF idx > Len(names)
       THEN /\ outcome' = [status |-> "returned", value |-> <<>>,
                           map |-> results, error |-> NoError]
            /\ pc' = "idle"
            /\ caller' = "none"
            /\ lastOp' = PlainOp("return_multiple")
            /\ UNCHANGED <<callVars, genVars, mode>>
       ELSE /\ StartGenerateEntity(names[idx], force, TRUE)
            /\ lastOp' = PlainOp("call_generate_entity")
            /\ UNCHANGED <<outcome, caller>>
    /\ UNCHANGED <<diskVars, multiVars, calls, ops>>
    /\ UNCHANGED componentVars

\* generate_entity step 1: _analyze_entity; an unknown name raises, and the
\* except clause of generate_entity wraps the error
AnalyzeEntity ==
    /\ pc = "analyze"
    /\ IF entity_name \in KnownEntities
       THEN /\ pc' = "construct"
            /\ lastOp' = PlainOp("analyze")
            /\ UNCHANGED <<outcome, multiVars, caller>>
       ELSE LET e == WrappedError(entity_name, EntityNotFound(entity_name))
            IN  /\ Finish(Raised(e))
                /\ lastOp' = Op("raise", FALSE, {}, {}, NoRouterFile, e)
    /\ UNCHANGED <<diskVars, callVars, genVars, mode, calls, ops>>
    /\ UNCHANGED componentVars

\* the orchestrator's step methods driven directly: _generate_all_artifacts
\* on the analysis of a known entity with a fresh context
CallGenerateAllArtifacts ==
    /\ pc = "idle"
    /\ calls = 0
    /\ \E name \in KnownEntities : entity_name' = name
    /\ mode' = "steps"
    /\ caller' = "none"
    /\ objs' = <<>>
    /\ artifacts' = <<>>
    /\ context_artifacts' = <<>>
    /\ k' = 1
    /\ cur' = <<>>
    /\ j' = 1
    /\ pc' = "construct"
    /\ outcome' = NoOutcome
    /\ calls' = calls + 1
    /\ ops' = 0
    /\ lastOp' = PlainOp("call_generate_all_artifacts")
    /\ UNCHANGED <<diskVars, force, write_files, multiVars>>
    /\ UNCHANGED componentVars

\* XGenerator.generate up to the CodeArtifact constructor: the template is
\* rendered (to valid or to malformed Python) and the artifact is built,
\* pending.  TestGenerator builds the factory and the e2e test together.
GenConstruct ==
    /\ pc = "construct"
    /\ LET kinds == GeneratorKinds[k] IN
       \E v \in [1..Len(kinds) -> BOOLEAN] :
          /\ Malformed(objs) + Cardinality({i \in 1..Len(kinds) : ~v[i]}) <= MaxMalformed
          /\ objs' = objs \o [i \in 1..Len(kinds) |->
                                 CodeArtifact(kinds[i], entity_name, v[i])]
          /\ cur' = [i \in 1..Len(kinds) |-> Len(objs) + i]
    /\ j' = 1
    /\ pc' = "validate_one"
    /\ lastOp' = PlainOp("construct")
    /\ UNCHANGED <<diskVars, callVars, mode, caller, artifacts, context_artifacts,
                   k, outcome, multiVars, calls, ops>>
    /\ UNCHANGED componentVars

\* the position of a generator after it has dealt with cur[j]
AfterArtifact ==
    IF j < Len(cur) THEN /\ j' = j + 1
                         /\ pc' = "validate_one"
    ELSE /\ j' = j
         /\ pc' = "append"

\* XGenerator.generate: if self.validate_artifact(artifact):
GenValidate ==
    /\ pc = "validate_one"
    /\ objs' = [objs EXCEPT ![cur[j]] = validate_artifact(@)]
    /\ IF validate_artifact_result(objs[cur[j]])
       THEN /\ pc' = "mark_one"
            /\ j' = j
       ELSE AfterArtifact
    /\ lastOp' = PlainOp("validate_artifact")
    /\ UNCHANGED <<diskVars, callVars, mode, caller, artifacts, context_artifacts,
                   k, cur, outcome, multiVars, calls, ops>>
    /\ UNCHANGED componentVars

\* XGenerator.generate: artifact.mark_generated()
GenMarkGenerated ==
    /\ pc = "mark_one"
    /\ objs' = [objs EXCEPT ![cur[j]] = mark_generated(@)]
    /\ AfterArtifact
    /\ lastOp' = PlainOp("mark_generated")
    /\ UNCHANGED <<diskVars, callVars, mode, caller, artifacts, context_artifacts,
                   k, cur, outcome, multiVars, calls, ops>>
    /\ UNCHANGED componentVars

\* _generate_all_artifacts: artifacts.append/extend and context.add_artifact
\* for what the generator returned, then on to the next generator; tests
\* only if config.testing.generate_tests
GenAppend ==
    /\ pc = "append"
    /\ artifacts' = artifacts \o cur
    /\ context_artifacts' = add_artifacts(context_artifacts, cur)
    /\ cur' = <<>>
    /\ j' = 1
    /\ IF k < 5 \/ (k = 5 /\ generate_tests)
       THEN /\ k' = k + 1
            /\ pc' = "construct"
       ELSE /\ k' = k
            /\ pc' = IF mode = "generate_entity" THEN "validate" ELSE "held"
    /\ lastOp' = PlainOp("append")
    /\ UNCHANGED <<diskVars, callVars, mode, caller, objs, outcome, multiVars,
                   calls, ops>>
    /\ UNCHANGED componentVars

\* generate_entity steps 4 to 6 and the return: _validate_artifacts, whose
\* error the except clause wraps; then, if write_files, _write_artifacts
\* and _update_router_registry; then return artifacts
ValidateWriteReturn ==
    /\ pc = "validate"
    /\ LET errors == ValidationErrors(Deref(artifacts, objs))
           step == AfterGeneration(errors, write_files) IN
       IF step = "raise"
       THEN LET e == WrappedError(entity_name, ValidationFailed(errors))
            IN  /\ Finish(Raised(e))
                /\ lastOp' = Op("raise", FALSE, {}, {}, NoRouterFile, e)
                /\ UNCHANGED <<fs, routerFile, objs>>
       ELSE IF step = "write"
       THEN LET r == WriteLoop(artifacts, fs, objs, force, unwritable)
            IN  /\ fs' = r.disk
                /\ objs' = r.heap
                /\ routerFile' = PatchedRouterFile(routerFile, entity_name, unwritable)
                /\ Finish(Returned(Deref(artifacts, r.heap)))
                /\ lastOp' = PlainOp("return")
       ELSE /\ Finish(Returned(Deref(artifacts, objs)))
            /\ lastOp' = PlainOp("return")
            /\ UNCHANGED <<fs, routerFile, objs>>
    /\ UNCHANGED <<unwritable, generate_tests, callVars, artifacts, context_artifacts,
                   k, cur, j, mode, calls, ops>>
    /\ UNCHANGED componentVars

\* _write_artifacts(artifacts, force) invoked on the list
\* _generate_all_artifacts returned
WriteArtifacts ==
    /\ pc = "held"
    /\ ops < MaxWrites
    /\ \E f \in BOOLEAN :
          LET r == WriteLoop(artifacts, fs, objs, f, unwritable)
              paths == {objs[artifacts[i]].path : i \in 1..Len(artifacts)}
          IN  /\ fs' = r.disk
              /\ objs' = r.heap
              /\ lastOp' = Op("write", f,
                              {p \in paths : fs[p] # NoFile /\ ~f},
                              {p \in paths : (fs[p] = NoFile \/ f) /\ p \notin unwritable},
                              NoRouterFile, NoError)
    /\ ops' = ops + 1
    /\ UNCHANGED <<unwritable, routerFile, generate_tests, callVars, mode, caller, pc,
                   artifacts, context_artifacts, k, cur, j, outcome, multiVars, calls>>
    /\ UNCHANGED componentVars

\* BaseGenerator.write_artifact(artifact, project_path, force) invoked on an
\* artifact a generator returned
StaticWriteArtifact ==
    /\ pc = "held"
    /\ ops < MaxWrites
    /\ \E i \in 1..Len(objs), f \in BOOLEAN :
          LET r == WriteUnlessExists(fs, objs[i], f, unwritable)
              p == objs[i].path
          IN  /\ fs' = r.disk
              /\ objs' = [objs EXCEPT ![i] = r.art]
              /\ lastOp' = Op("static_write", f,
                              {q \in {p} : fs[q] # NoFile /\ ~f},
                              {q \in {p} : (fs[q] = NoFile \/ f) /\ q \notin unwritable},
                              NoRouterFile, NoError)
    /\ ops' = ops + 1
    /\ UNCHANGED <<unwritable, routerFile, generate_tests, callVars, mode, caller, pc,
                   artifacts, context_artifacts, k, cur, j, outcome, multiVars, calls>>
    /\ UNCHANGED componentVars

\* _update_router_registry(entity_name) invoked on the project
CallUpdateRouterRegistry ==
    /\ pc = "idle"
    /\ ops < MaxPatches
    /\ \E name \in EntityNames :
          /\ entity_name' = name
          /\ routerFile' = PatchedRouterFile(routerFile, name, unwritable)
    /\ lastOp' = Op("registry", FALSE, {}, {}, routerFile, NoError)
    /\ ops' = ops + 1
    /\ UNCHANGED <<fs, unwritable, generate_tests, force, write_files, genVars, mode,
                   caller, pc, outcome, multiVars, calls>>
    /\ UNCHANGED componentVars

(* ---------------------------- specifications -------------------------- *)
\* the orchestrator's entry points: generate_entity and generate_multiple
Next ==
    \/ CallGenerateEntity
    \/ CallGenerateMultiple
    \/ MultipleLoop
    \/ AnalyzeEntity
    \/ GenConstruct
    \/ GenValidate
    \/ GenMarkGenerated
    \/ GenAppend
    \/ ValidateWriteReturn

Spec == Init /\ [][Next]_vars

\* the write operations driven directly on generated artifacts
NextWrite ==
    \/ CallGenerateAllArtifacts
    \/ GenConstruct
    \/ GenValidate
    \/ GenMarkGenerated
    \/ GenAppend
    \/ WriteArtifacts
    \/ StaticWriteArtifact

SpecWrite == InitWrite /\ [][NextWrite]_vars

\* the route-registry patch driven directly
NextRegistry == CallUpdateRouterRegistry

SpecRegistry == InitRegistry /\ [][NextRegistry]_vars

(* ------------------------------- claims ------------------------------- *)
\* a generate_entity call made by the CLI has just ended
EntityCallEnded ==
    /\ mode = "generate_entity"
    /\ caller = "none"
    /\ pc = "idle"
    /\ lastOp.op \in {"raise", "return"}

\* C1: generate_entity on an entity whose analysis succeeds and whose
\* templates all render to valid Python, with tests enabled, returns
\* (does not raise) exactly seven artifacts: model, schema, repository,
\* service, router, then the two test artifacts.
C1_SevenArtifactsReturned ==
    ( /\ EntityCallEnded
      /\ entity_name \in KnownEntities
      /\ generate_tests
      /\ \A i \in 1..Len(objs) : AstParses(objs[i].content) )
    => /\ outcome.status = "returned"
       /\ [i \in 1..Len(outcome.value) |-> outcome.value[i].type]
            = <<"model", "schema", "repository", "service", "router", "test", "test">>

\* some artifact of the running generate_entity call has not the status
\* validated
UnvalidatedExists ==
    \E i \in 1..Len(objs) : objs[i].status # "validated"

\* C2: while a generate_entity call holds an artifact that did not reach
\* validated, no step of the call changes a project file or the
\* route-aggregator file, and the validation step ends the call with a
\* code-generation error.
C2_NoWriteUnlessAllValidated ==
    [][ ( /\ mode = "generate_entity"
          /\ pc \in {"construct", "validate_one", "mark_one", "append", "validate"}
          /\ UnvalidatedExists )
        => /\ fs' = fs
           /\ routerFile' = routerFile
           /\ pc = "validate" => lastOp'.op = "raise" ]_vars

C2_Witness ==
    /\ mode = "generate_entity"
    /\ lastOp.op = "raise"
    /\ write_files
    /\ Len(artifacts) = 7
    /\ \E i \in 1..Len(objs) : objs[i].status = "error"
    /\ \A i \in 1..Len(objs) : fs[objs[i].path] # objs[i].content

StatusRank(st) ==
    CASE st = "pending"   -> 0
      [] st = "generated" -> 1
      [] st = "validated" -> 2
      [] st = "written"   -> 3
      [] st = "error"     -> 4

\* C3: an artifact starts at pending, and every change of its status goes
\* forward in the order pending, generated, validated, written, or to
\* error, which is terminal.
C3_LinearLifecycle ==
    [][ /\ \A i \in (DOMAIN objs') \ (DOMAIN objs) : objs'[i].status = "pending"
        /\ \A i \in (DOMAIN objs') \cap (DOMAIN objs) :
              StatusRank(objs'[i].status) >= StatusRank(objs[i].status) ]_vars

\* C4: an artifact is written only if its syntax validation succeeded: no
\* artifact with malformed content has status written, and no file on disk
\* holds malformed generated content.
C4_OnlyValidatedWritten ==
    /\ \A i \in 1..Len(objs) : objs[i].status = "written" => AstParses(objs[i].content)
    /\ \A p \in AllPaths : fs[p] # NoFile => fs[p].valid

\* C5: a write without force leaves every file that already exists as it
\* is and leaves the artifact destined for it unmarked (neither written nor
\* error), and _write_artifacts still writes every artifact of the list
\* whose destination does not exist (the disk accepting the write), so that
\* a second write of the same list skips everything.
C5_NoForceKeepsExistingFiles ==
    [][ (ops' = ops + 1 /\ lastOp'.op \in {"write", "static_write"} /\ ~lastOp'.force)
        => /\ \A p \in AllPaths : fs[p] # NoFile => fs'[p] = fs[p]
           /\ \A i \in 1..Len(objs) :
                 fs[objs[i].path] # NoFile => objs'[i].status = objs[i].status
           /\ lastOp'.op = "write" =>
                 \A i \in 1..Len(artifacts) :
                    LET a == objs[artifacts[i]] IN
                    (fs[a.path] = NoFile /\ a.path \notin unwritable)
                    => /\ fs'[a.path] = a.content
                       /\ objs'[artifacts[i]].status = "written" ]_vars

\* a write of a whole list without force skipped a file that existed and
\* wrote a sibling
C5_Witness ==
    /\ lastOp.op = "write"
    /\ ~lastOp.force
    /\ lastOp.skipped # {}
    /\ lastOp.written # {}
    /\ \E i \in 1..Len(objs) : objs[i].path \in lastOp.skipped /\ objs[i].status = "generated"

\* the registry patch for entity_name has just run on a file that existed,
\* could be written and did not contain the entity's import line
PatchedFreshFile ==
    /\ lastOp.op = "registry"
    /\ lastOp.fileBefore # NoRouterFile
    /\ RouterPath \notin unwritable
    /\ ~InContent(lastOp.fileBefore, ImportLine(entity_name))

\* C6: after the registry patch for E ran on an existing file without E's
\* import line, the file contains E's import line and E's include_router
\* line; when no endpoint import and no registration call pre-existed,
\* both were appended at the end.
C6_ImportAndIncludePresent ==
    PatchedFreshFile
    => /\ \E i \in 1..Len(routerFile) : routerFile[i] = ImportLine(entity_name)
       /\ \E i \in 1..Len(routerFile) : routerFile[i] = IncludeLine(entity_name)
       /\ ( /\ ImportIndex(lastOp.fileBefore) = 0
            /\ IncludeIndex(lastOp.fileBefore) = 0 )
          => /\ Len(routerFile) > Len(lastOp.fileBefore)
             /\ SubSeq(routerFile, 1, Len(lastOp.fileBefore)) = lastOp.fileBefore
             /\ routerFile[Len(routerFile)] = IncludeLine(entity_name)
             /\ \E i \in (Len(lastOp.fileBefore) + 1)..Len(routerFile) :
                   routerFile[i] = ImportLine(entity_name)

Occurrences(lines, line) == Cardinality({i \in 1..Len(lines) : lines[i] = line})

\* C7: the registry patch is idempotent: however often an entity is
\* patched in, the file holds its import line at most once and its
\* registration line at most once.
C7_RegisteredAtMostOnce ==
    \A name \in EntityNames :
       /\ Occurrences(routerFile, ImportLine(name)) <= 1
       /\ Occurrences(routerFile, IncludeLine(name)) <= 1

\* the destination paths of all artifacts of generators 1..n, in order
RECURSIVE PathsThrough(_, _)
PathsThrough(n, name) ==
    IF n = 0 THEN <<>>
    ELSE PathsThrough(n - 1, name) \o
         [i \in 1..Len(GeneratorKinds[n]) |-> ArtifactPath(GeneratorKinds[n][i], name)]

\* C8: when the k-th generator starts, context.artifacts is exactly the
\* artifacts of generators 1..k-1, in the order model, schema, repository,
\* service, router; and the finished list is those five, then the two test
\* artifacts if tests are enabled.
C8_PredecessorsInContext ==
    LET types == [i \in 1..Len(context_artifacts) |-> objs[context_artifacts[i]].type]
        paths == [i \in 1..Len(context_artifacts) |-> objs[context_artifacts[i]].path]
        order == <<"model", "schema", "repository", "service", "router", "test", "test">>
    IN  /\ pc = "construct" =>
              /\ types = SubSeq(order, 1, k - 1)
              /\ paths = PathsThrough(k - 1, entity_name)
        /\ pc \in {"validate", "held"} =>
              /\ types = SubSeq(order, 1, IF generate_tests THEN 7 ELSE 5)
              /\ context_artifacts = artifacts

C8_Witness ==
    /\ pc = "construct"
    /\ k = 6
    /\ Len(context_artifacts) = 5

\* C9: when generate_multiple returns, generate_entity has been attempted
\* for every name in list order whatever failed before, and the key set of
\* the returned map is the set of names whose call succeeded.
C9_AllAttemptedSucceededReturned ==
    lastOp.op = "return_multiple"
    => /\ [i \in 1..Len(attempted) |-> attempted[i].name] = names
       /\ DOMAIN outcome.map = {attempted[i].name : i \in {n \in 1..Len(attempted) : attempted[n].ok}}

C9_Witness ==
    /\ lastOp.op = "return_multiple"
    /\ Len(names) = 2
    /\ Len(attempted) = 2
    /\ ~attempted[1].ok

\* the error text mentions the path
Mentions(e, path) ==
    \/ Contains(e.message, path)
    \/ Contains(e.details.error, path)
    \/ \E i \in 1..Len(e.details.errors) : Contains(e.details.errors[i], path)

\* C10: when several artifacts of a generate_entity call fail validation,
\* the error generate_entity raises lists every one of them.
C10_ErrorListsEveryArtifact ==
    ( /\ mode = "generate_entity"
      /\ lastOp.op = "raise"
      /\ Cardinality({i \in 1..Len(artifacts) : objs[artifacts[i]].status = "error"}) >= 2 )
    => \A i \in 1..Len(artifacts) :
          objs[artifacts[i]].status = "error" => Mentions(lastOp.error, objs[artifacts[i]].path)


(* ------------------- vocabulary fetcher: operations ------------------- *)
MaxNow == 8

FetchPending == [status |-> "pending", bundle |-> <<>>, message |-> ""]

\* what fetch_entity(name, force_refresh) of invocation p finds on entry,
\* and the source _load_vocabulary chooses (history)
Observation(p, f, plan) ==
    [served |-> plan, force |-> f, mem |-> vocabulary[p].kind,
     data |-> cacheFile.kind, meta |-> metadataFile.kind,
     age |-> IF metadataFile.kind = "meta" THEN now - metadataFile.cached_at ELSE 0,
     agree |-> pairAgrees]

\* the cache directory before the tool runs: empty, or holding the pair an
\* earlier run downloaded; with per-entity files of the legacy layout
InitialCaches ==
    { <<NoCacheFile, NoCacheFile>>,
      <<DataFile(Vocabulary(1)), MetaFile(0)>> }

InitFetcher ==
    /\ ProjectUntouched
    /\ AuxIdle
    /\ AnalyzerIdle
    /\ BreakerIdle
    /\ LimiterIdle
    /\ now = 0
    /\ \E c \in InitialCaches : cacheFile = c[1] /\ metadataFile = c[2]
    /\ entityFiles = EntityCacheFiles("Person")
    /\ fpc = [p \in Invocations |-> "idle"]
    /\ vocabulary = [p \in Invocations |-> NoVocabulary]
    /\ fargs = [p \in Invocations |-> NoArgs]
    /\ dataWriter = "none"
    /\ pairAgrees = (cacheFile.kind = "data")
    /\ fetched = [p \in Invocations |-> NoFetch]
    /\ lastFetch = NoObservation

\* fetch_entity(name, force_refresh) up to the first await: _load_vocabulary
\* returns from memory or from the disk cache and fetch_entity completes, or
\* the GET is sent.  The two exists() and two read_text() calls of the cache
\* check are taken as one look at the directory.
CallFetchEntity(p) ==
    /\ fpc[p] = "idle"
    /\ \E name \in FetchNames, f \in BOOLEAN :
          LET plan == LoadPlan(vocabulary[p], f, cacheFile, metadataFile, now)
          IN  /\ lastFetch' = Observation(p, f, plan)
              /\ IF plan = "memory"
                 THEN /\ fetched' = [fetched EXCEPT ![p] =
                            [name |-> name, result |-> ExtractEntity(vocabulary[p], name)]]
                      /\ UNCHANGED <<vocabulary, fpc, fargs>>
                 ELSE IF plan = "disk"
                 THEN /\ vocabulary' = [vocabulary EXCEPT ![p] = cacheFile.vocab]
                      /\ fetched' = [fetched EXCEPT ![p] =
                            [name |-> name, result |-> ExtractEntity(cacheFile.vocab, name)]]
                      /\ UNCHANGED <<fpc, fargs>>
                 ELSE /\ fpc' = [fpc EXCEPT ![p] = "get"]
                      /\ fargs' = [fargs EXCEPT ![p] =
                            [entity_name |-> name, force_refresh |-> f]]
                      /\ fetched' = [fetched EXCEPT ![p] =
                            [name |-> name, result |-> FetchPending]]
                      /\ UNCHANGED vocabulary
    /\ UNCHANGED <<now, cacheFile, metadataFile, entityFiles, dataWriter, pairAgrees,
                   notFetcherVars>>

\* _load_vocabulary: the GET completes.  A 2xx answer with a JSON body is
\* stored in self._vocabulary; anything else raises and is wrapped.
HttpGet(p) ==
    /\ fpc[p] = "get"
    /\ \/ \E doc \in Documents :
             /\ vocabulary' = [vocabulary EXCEPT ![p] = doc]
             /\ fpc' = [fpc EXCEPT ![p] = "write_data"]
             /\ UNCHANGED <<fetched, fargs>>
       \/ /\ fetched' = [fetched EXCEPT ![p].result =
                 FetchRaised("Failed to download Schema.org vocabulary")]
          /\ fpc' = [fpc EXCEPT ![p] = "idle"]
          /\ fargs' = [fargs EXCEPT ![p] = NoArgs]
          /\ UNCHANGED vocabulary
    /\ lastFetch' = NoObservation
    /\ UNCHANGED <<now, cacheFile, metadataFile, entityFiles, dataWriter, pairAgrees,
                   notFetcherVars>>

\* _load_vocabulary: cache_file.write_text(json.dumps(self._vocabulary))
WriteData(p) ==
    /\ fpc[p] = "write_data"
    /\ cacheFile' = DataFile(vocabulary[p])
    /\ dataWriter' = p
    /\ pairAgrees' = FALSE
    /\ fpc' = [fpc EXCEPT ![p] = "write_meta"]
    /\ lastFetch' = NoObservation
    /\ UNCHANGED <<now, metadataFile, entityFiles, vocabulary, fargs, fetched,
                   notFetcherVars>>

\* _load_vocabulary: metadata_file.write_text(...), return; then the rest of
\* fetch_entity
WriteMetadata(p) ==
    /\ fpc[p] = "write_meta"
    /\ metadataFile' = MetaFile(now)
    /\ pairAgrees' = (dataWriter = p)
    /\ dataWriter' = IF dataWriter = p THEN "none" ELSE dataWriter
    /\ fetched' = [fetched EXCEPT ![p].result =
                      ExtractEntity(vocabulary[p], fargs[p].entity_name)]
    /\ fpc' = [fpc EXCEPT ![p] = "idle"]
    /\ fargs' = [fargs EXCEPT ![p] = NoArgs]
    /\ lastFetch' = NoObservation
    /\ UNCHANGED <<now, cacheFile, entityFiles, vocabulary, notFetcherVars>>

\* the process dies inside a call: its memory is lost; a write_text it was
\* about to do has not happened or has left a truncated file
Crash(p) ==
    /\ fpc[p] # "idle"
    /\ fpc' = [fpc EXCEPT ![p] = "idle"]
    /\ vocabulary' = [vocabulary EXCEPT ![p] = NoVocabulary]
    /\ fetched' = [fetched EXCEPT ![p] = NoFetch]
    /\ fargs' = [fargs EXCEPT ![p] = NoArgs]
    /\ cacheFile' \in IF fpc[p] = "write_data" THEN {cacheFile, CorruptFile}
                      ELSE {cacheFile}
    /\ metadataFile' \in IF fpc[p] = "write_meta" THEN {metadataFile, CorruptFile}
                         ELSE {metadataFile}
    /\ dataWriter' = IF dataWriter = p \/ cacheFile' # cacheFile THEN "none"
                     ELSE dataWriter
    /\ pairAgrees' = (pairAgrees /\ cacheFile' = cacheFile /\ metadataFile' = metadataFile)
    /\ lastFetch' = NoObservation
    /\ UNCHANGED <<now, entityFiles, notFetcherVars>>

\* the command ends and the process exits; the next command is a new
\* process with a new SchemaOrgFetcher
Exit(p) ==
    /\ fpc[p] = "idle"
    /\ vocabulary[p] # NoVocabulary \/ fetched[p] # NoFetch
    /\ vocabulary' = [vocabulary EXCEPT ![p] = NoVocabulary]
    /\ fetched' = [fetched EXCEPT ![p] = NoFetch]
    /\ lastFetch' = NoObservation
    /\ UNCHANGED <<now, cacheFile, metadataFile, entityFiles, fpc, fargs, dataWriter,
                   pairAgrees, notFetcherVars>>

\* clear_cache(entity_name) with a name
ClearCacheEntity(p, name) ==
    /\ fpc[p] = "idle"
    /\ entityFiles' = ClearedEntity(entityFiles, name)
    /\ lastFetch' = NoObservation
    /\ UNCHANGED <<now, cacheFile, metadataFile, fpc, vocabulary, fargs, dataWriter,
                   pairAgrees, fetched, notFetcherVars>>

\* clear_cache(): every *.json and *.meta of the directory is unlinked
ClearCacheAll(p) ==
    /\ fpc[p] = "idle"
    /\ entityFiles' = {}
    /\ cacheFile' = NoCacheFile
    /\ metadataFile' = NoCacheFile
    /\ dataWriter' = "none"
    /\ pairAgrees' = FALSE
    /\ lastFetch' = NoObservation
    /\ UNCHANGED <<now, fpc, vocabulary, fargs, fetched, notFetcherVars>>

\* time passes: as long as the cache lives, or a day longer
Tick ==
    /\ \E d \in {CACHE_TTL, CACHE_TTL + 1} :
          /\ now + d <= MaxNow
          /\ now' = now + d
    /\ lastFetch' = NoObservation
    /\ UNCHANGED <<cacheFile, metadataFile, entityFiles, fpc, vocabulary, fargs,
                   dataWriter, pairAgrees, fetched, notFetcherVars>>

NextFetcher ==
    \/ \E p \in Invocations : CallFetchEntity(p)
    \/ \E p \in Invocations : HttpGet(p)
    \/ \E p \in Invocations : WriteData(p)
    \/ \E p \in Invocations : WriteMetadata(p)
    \/ \E p \in Invocations : Crash(p)
    \/ \E p \in Invocations : Exit(p)
    \/ \E p \in Invocations, name \in FetchNames : ClearCacheEntity(p, name)
    \/ \E p \in Invocations : ClearCacheAll(p)
    \/ Tick

SpecFetcher == InitFetcher /\ [][NextFetcher]_vars


(* ---------------------- vocabulary fetcher: claims -------------------- *)
\* the call just made went to the network
Downloaded == lastFetch.served = "network"

\* the unusable on-disk cache as the claim lists it: data file or sidecar
\* missing, sidecar corrupt, or cached_at older than CACHE_TTL
ListedUnusable ==
    \/ lastFetch.data = "missing"
    \/ lastFetch.meta = "missing"
    \/ lastFetch.meta = "corrupt"
    \/ (lastFetch.meta = "meta" /\ lastFetch.age > CACHE_TTL)

\* C11 as stated: a fetch_entity call downloads if and only if force_refresh
\* is set, or there is no in-memory vocabulary and the on-disk cache is
\* unusable (data file or sidecar missing, sidecar corrupt, or older than
\* CACHE_TTL); otherwise it is served from memory if present, else from disk
C11_DownloadIffForcedOrNoCache ==
    lastFetch.served # "none" =>
        /\ Downloaded <=> (lastFetch.force \/ (lastFetch.mem = "none" /\ ListedUnusable))
        /\ ~Downloaded =>
              lastFetch.served = IF lastFetch.mem # "none" THEN "memory" ELSE "disk"

\* C11 amended: a fetch_entity call downloads if and only if force_refresh is
\* set, or no non-empty vocabulary is held in memory and the on-disk cache is
\* unusable (data file or sidecar missing, either file unparseable, or
\* cached_at older than CACHE_TTL); otherwise it is served from memory if a
\* non-empty vocabulary is held, else from the disk cache
C11_DownloadIffForcedOrNothingUsable ==
    lastFetch.served # "none" =>
        /\ Downloaded <=>
              \/ lastFetch.force
              \/ /\ lastFetch.mem # "vocab"
                 /\ ListedUnusable \/ lastFetch.data = "corrupt"
        /\ ~Downloaded =>
              lastFetch.served = IF lastFetch.mem = "vocab" THEN "memory" ELSE "disk"

\* a call without force_refresh and without a vocabulary in memory found a
\* truncated data file next to a fresh sidecar, and downloaded
C11_Witness ==
    /\ Downloaded
    /\ ~lastFetch.force
    /\ lastFetch.mem = "none"
    /\ lastFetch.data = "corrupt"
    /\ lastFetch.meta = "meta"
    /\ lastFetch.age <= CACHE_TTL

\* C12: a load (no force_refresh, nothing in memory) that finds the data file
\* next to a sidecar that was not produced by the same download treats the
\* cache as a miss and downloads, rather than returning the on-disk data
C12_DisagreementIsCacheMiss ==
    ( /\ lastFetch.served # "none"
      /\ ~lastFetch.force
      /\ lastFetch.mem = "none"
      /\ lastFetch.data = "data"
      /\ ~lastFetch.agree ) => Downloaded

\* C13: when fetch_entity(N) completes successfully the cache directory
\* contains N.json, a second fetch_entity(N) returns a bundle equal to the
\* first, and after clear_cache(N) the file N.json does not exist
C13_EntityFileCachedUntilCleared ==
    [][ /\ \A p \in Invocations :
              (fetched'[p] # fetched[p] /\ fetched'[p].result.status = "returned")
                  => (fetched'[p].name \o ".json") \in entityFiles'
        /\ \A p \in Invocations :
              ( /\ fetched[p].result.status = "returned"
                /\ fetched'[p].result.status = "returned"
                /\ fetched'[p].name = fetched[p].name )
                  => fetched'[p].result.bundle = fetched[p].result.bundle
        /\ \A p \in Invocations, name \in FetchNames :
              ClearCacheEntity(p, name) => (name \o ".json") \notin entityFiles'
      ]_vars

\* C25: a fetch_entity call that finds the on-disk vocabulary cache absent
\* (data file or sidecar missing, as after clear_cache()) or older than
\* CACHE_TTL downloads the vocabulary instead of serving an earlier copy
C25_AbsentOrExpiredCacheIsRefreshed ==
    ( /\ lastFetch.served # "none"
      /\ \/ lastFetch.data = "missing"
         \/ lastFetch.meta = "missing"
         \/ (lastFetch.meta = "meta" /\ lastFetch.age > CACHE_TTL) ) => Downloaded

(* ------------------------ entity analyzer: operations ----------------- *)
\* longest entity_names list passed to analyze_multiple
MaxBatch == 2

\* most relationships of one entity handed to the second pass
MaxRelationships == 2

\* longest parent list a walk of get_entity_hierarchy is followed to
MaxWalk == 4

\* fetch_entity as the analyzer's fetcher answers it: until a load has
\* succeeded the vocabulary may be out of reach
AnalyzerFetch(loaded, name, reachable) ==
    IF ~loaded /\ ~reachable
    THEN FetchRaised("Failed to download Schema.org vocabulary")
    ELSE ExtractEntity(AnalyzerVocabulary, name)

\* what the AI call did in an analyze_entity, "unused" if it was not reached
AIUse(fetch, use_ai, enabled, ai) ==
    IF /\ fetch.status = "returned"
       /\ ResolveAllRelationships(WithTypeInfo(ParseEntity(fetch.bundle))).status = "returned"
       /\ use_ai /\ enabled
    THEN ai.kind
    ELSE "unused"

\* self.analyzed_entities[entity_name] = entity, once the analysis got there
Remembered(known, name, result) ==
    IF result.status = "returned"
    THEN (name :> result.analysis.entity) @@ known
    ELSE known

AnalyzerOp(op, name, entity_names, status, error, value, input, ai, log, lookup_failed) ==
    [op |-> op, name |-> name, names |-> entity_names, status |-> status, error |-> error,
     value |-> value, input |-> input, ai |-> ai, log |-> log,
     lookup_failed |-> lookup_failed]

\* one analyzer, built with or without a configured AIConfig
InitAnalyzer ==
    /\ ProjectUntouched
    /\ AuxIdle
    /\ FetcherIdle
    /\ BreakerIdle
    /\ LimiterIdle
    /\ ai_enabled \in BOOLEAN
    /\ vocabLoaded = FALSE
    /\ analyzed_entities = <<>>
    /\ apc = "idle"
    /\ acall = NoCall
    /\ alast = NoAnalyzerOp

\* analyze_entity(entity_name, use_ai=use_ai)
CallAnalyzeEntity ==
    /\ apc = "idle"
    /\ \E name \in AnalyzerNames, use_ai \in BOOLEAN,
          reachable \in BOOLEAN, ai \in AIOutcomesOf(ai_enabled) :
          LET fetch == AnalyzerFetch(vocabLoaded, name, reachable)
              result == AnalyzeEntityResult(fetch, use_ai, ai_enabled, ai)
          IN  /\ vocabLoaded \/ reachable \in BOOLEAN
              /\ vocabLoaded => reachable
              /\ vocabLoaded' = (vocabLoaded \/ reachable)
              /\ analyzed_entities' = Remembered(analyzed_entities, name, result)
              /\ alast' = AnalyzerOp("analyze_entity", name, <<>>, result.status,
                                     result.error, result.analysis, <<>>,
                                     AIUse(fetch, use_ai, ai_enabled, ai), <<>>, "")
    /\ UNCHANGED <<ai_enabled, apc, acall>>
    /\ UNCHANGED notAnalyzerVars

\* analyze_multiple(entity_names, use_ai=use_ai): results = {}
CallAnalyzeMultiple ==
    /\ apc = "idle"
    /\ \E n \in 0..MaxBatch, use_ai \in BOOLEAN :
       \E entity_names \in [1..n -> AnalyzerNames] :
          acall' = [NoCall EXCEPT !.op = "analyze_multiple", !.names = entity_names,
                                  !.use_ai = use_ai]
    /\ apc' = "multiple"
    /\ alast' = NoAnalyzerOp
    /\ UNCHANGED <<ai_enabled, vocabLoaded, analyzed_entities>>
    /\ UNCHANGED notAnalyzerVars

\* one turn of the loop of analyze_multiple: a SchemaOrgError skips the
\* entity, any other exception leaves the call
AnalyzeMultipleStep ==
    /\ apc = "multiple"
    /\ acall.i <= Len(acall.names)
    /\ \E reachable \in BOOLEAN, ai \in AIOutcomesOf(ai_enabled) :
          LET name == acall.names[acall.i]
              fetch == AnalyzerFetch(vocabLoaded, name, reachable)
              result == AnalyzeEntityResult(fetch, acall.use_ai, ai_enabled, ai)
              entry == [name |-> name, status |-> result.status, error |-> result.error]
          IN  /\ vocabLoaded => reachable
              /\ vocabLoaded' = (vocabLoaded \/ reachable)
              /\ analyzed_entities' = Remembered(analyzed_entities, name, result)
              /\ IF result.status = "returned"
                 THEN /\ acall' = [acall EXCEPT !.i = @ + 1,
                                       !.results = (name :> result.analysis) @@ @,
                                       !.log = Append(@, entry)]
                      /\ UNCHANGED <<apc, alast>>
                 ELSE IF result.error = "SchemaOrgError"
                 THEN /\ acall' = [acall EXCEPT !.i = @ + 1, !.log = Append(@, entry)]
                      /\ UNCHANGED <<apc, alast>>
                 ELSE /\ acall' = NoCall
                      /\ apc' = "idle"
                      /\ alast' = AnalyzerOp("analyze_multiple", "", acall.names, "raised",
                                             result.error, <<>>, <<>>, "unused",
                                             Append(acall.log, entry), "")
    /\ UNCHANGED ai_enabled
    /\ UNCHANGED notAnalyzerVars

\* analyze_multiple after the loop: the second pass over the entities of
\* the results (the same objects), then return results
AnalyzeMultipleReturn ==
    /\ apc = "multiple"
    /\ acall.i > Len(acall.names)
    /\ LET entities == [n \in DOMAIN acall.results |-> acall.results[n].entity]
           valid == ValidateAllRelationships(entities)
           returned == [n \in DOMAIN acall.results |->
                          [acall.results[n] EXCEPT !.entity = valid[n]]]
       IN  /\ analyzed_entities' = valid @@ analyzed_entities
           /\ alast' = AnalyzerOp("analyze_multiple", "", acall.names, "returned", "",
                                  returned, entities, "unused", acall.log, "")
    /\ acall' = NoCall
    /\ apc' = "idle"
    /\ UNCHANGED <<ai_enabled, vocabLoaded>>
    /\ UNCHANGED notAnalyzerVars

\* an entity that carries relationships
EntityWith(name, relationships) ==
    [name |-> name, parent_types |-> <<>>, properties |-> <<>>,
     relationships |-> relationships, metadata |-> NoMetadata]

RelationshipOwners == {"Person", "Organization"}
RelationshipCarriers == {"Person"}
RelationshipTargets == {"Person", "Organization", "Place"}

\* the relationship lists an entity can carry: property r1, r2, ... to any target
RelationshipLists ==
    UNION {{[i \in 1..n |-> Relationship("r" \o ToString(i), t[i])] :
                t \in [1..n -> RelationshipTargets]} : n \in 0..MaxRelationships}

\* _validate_all_relationships(entities) on a map of entities that carry
\* relationships
CallValidateAllRelationships ==
    /\ apc = "idle"
    /\ \E owners \in (SUBSET RelationshipOwners) \ {{}} :
       \E lists \in [owners \cap RelationshipCarriers -> RelationshipLists] :
          LET entities == [n \in owners |->
                              EntityWith(n, IF n \in DOMAIN lists THEN lists[n] ELSE <<>>)]
          IN  alast' = AnalyzerOp("validate_all_relationships", "", <<>>, "returned", "",
                                  ValidateAllRelationships(entities), entities,
                                  "unused", <<>>, "")
    /\ UNCHANGED <<ai_enabled, vocabLoaded, analyzed_entities, apc, acall>>
    /\ UNCHANGED notAnalyzerVars

\* get_entity_hierarchy(entity_name): the analysis of the entity itself
CallGetEntityHierarchy ==
    /\ apc = "idle"
    /\ \E name \in HierarchyNames, reachable \in BOOLEAN, ai \in AIOutcomesOf(ai_enabled) :
          LET fetch == AnalyzerFetch(vocabLoaded, name, reachable)
              result == AnalyzeEntityResult(fetch, TRUE, ai_enabled, ai)
          IN  /\ vocabLoaded => reachable
              /\ vocabLoaded' = (vocabLoaded \/ reachable)
              /\ analyzed_entities' = Remembered(analyzed_entities, name, result)
              /\ IF result.status = "returned"
                 THEN /\ acall' = [NoCall EXCEPT !.op = "get_entity_hierarchy",
                                       !.name = name, !.current = result.analysis.entity]
                      /\ apc' = "walk"
                      /\ alast' = NoAnalyzerOp
                 ELSE /\ alast' = AnalyzerOp("get_entity_hierarchy", name, <<>>, "raised",
                                             result.error, <<>>, <<>>, "unused", <<>>, "")
                      /\ UNCHANGED <<apc, acall>>
    /\ UNCHANGED ai_enabled
    /\ UNCHANGED notAnalyzerVars

\* one turn of "while current.parent_types", or the return after the loop
WalkParent ==
    /\ apc = "walk"
    /\ Len(acall.hierarchy) < MaxWalk
    /\ IF acall.current.parent_types = <<>>
       THEN /\ alast' = AnalyzerOp("get_entity_hierarchy", acall.name, <<>>, "returned", "",
                                   Append(acall.hierarchy, acall.name), <<>>, "unused",
                                   <<>>, "")
            /\ acall' = NoCall
            /\ apc' = "idle"
            /\ UNCHANGED <<vocabLoaded, analyzed_entities>>
       ELSE \E ai \in AIOutcomesOf(ai_enabled) :
            LET parent_name == Head(acall.current.parent_types)
                hierarchy == <<parent_name>> \o acall.hierarchy
                fetch == AnalyzerFetch(vocabLoaded, parent_name, TRUE)
                result == AnalyzeEntityResult(fetch, TRUE, ai_enabled, ai)
            IN  /\ analyzed_entities' = Remembered(analyzed_entities, parent_name, result)
                /\ UNCHANGED vocabLoaded
                /\ IF result.status = "returned"
                   THEN /\ acall' = [acall EXCEPT !.hierarchy = hierarchy,
                                         !.current = result.analysis.entity]
                        /\ UNCHANGED <<apc, alast>>
                   ELSE /\ acall' = NoCall
                        /\ apc' = "idle"
                        /\ alast' =
                            IF result.error = "SchemaOrgError"
                            THEN AnalyzerOp("get_entity_hierarchy", acall.name, <<>>,
                                            "returned", "", Append(hierarchy, acall.name),
                                            <<>>, "unused", <<>>, parent_name)
                            ELSE AnalyzerOp("get_entity_hierarchy", acall.name, <<>>,
                                            "raised", result.error, <<>>, <<>>, "unused",
                                            <<>>, "")
    /\ UNCHANGED ai_enabled
    /\ UNCHANGED notAnalyzerVars

\* single analyses and hierarchy walks
NextAnalyzer ==
    \/ CallAnalyzeEntity
    \/ CallGetEntityHierarchy
    \/ WalkParent

SpecAnalyzer == InitAnalyzer /\ [][NextAnalyzer]_vars

\* batches and the second pass
NextBatch ==
    \/ CallAnalyzeMultiple
    \/ AnalyzeMultipleStep
    \/ AnalyzeMultipleReturn
    \/ CallValidateAllRelationships

SpecBatch == InitAnalyzer /\ [][NextBatch]_vars

(* ------------------------- entity analyzer: claims -------------------- *)
\* every relationship of every entity of the map points at a key of the map
RelationshipsClosed(entities) ==
    \A n \in DOMAIN entities :
        \A x \in 1..Len(entities[n].relationships) :
            entities[n].relationships[x].target_entity \in DOMAIN entities

\* names of the batch whose analysis returned at some turn of the loop
AnalyzedNames(log) == {log[x].name : x \in {y \in 1..Len(log) : log[y].status = "returned"}}

\* C14: after analyze_multiple returns (and after its second pass has run on
\* any map of entities), every remaining relationship points at a key of the
\* map; every name of the batch was tried, and the keys of the returned map
\* are the names whose analysis returned, so a name that only raised a
\* SchemaOrgError is absent and did not end the batch
C14_BatchClosedAndFailuresSkipped ==
    /\ (alast.op = "validate_all_relationships" => RelationshipsClosed(alast.value))
    /\ (alast.op = "analyze_multiple" /\ alast.status = "returned" =>
            /\ RelationshipsClosed([n \in DOMAIN alast.value |-> alast.value[n].entity])
            /\ Len(alast.log) = Len(alast.names)
            /\ DOMAIN alast.value = AnalyzedNames(alast.log))
    /\ (alast.op = "analyze_multiple" /\ alast.status = "raised" =>
            alast.log[Len(alast.log)].error # "SchemaOrgError")

\* a batch returned a map that holds one name and lacks another whose
\* analysis raised a SchemaOrgError before it
C14_Witness ==
    /\ alast.op = "analyze_multiple"
    /\ alast.status = "returned"
    /\ DOMAIN alast.value # {}
    /\ \E x \in 1..Len(alast.log) :
          /\ alast.log[x].error = "SchemaOrgError"
          /\ alast.log[x].name \notin DOMAIN alast.value
          /\ \E y \in (x + 1)..Len(alast.log) : alast.log[y].status = "returned"

\* the class node of a name in the analyzer's vocabulary
DeclaredIn(name) ==
    {x \in 1..Len(AnalyzerGraph) :
        AnalyzerGraph[x].id = "schema:" \o name /\ AnalyzerGraph[x].type = "rdfs:Class"}

\* the parents a class of the vocabulary declares, as the parser reads them
DeclaredParents(name) ==
    SchemaNames(AnalyzerGraph[CHOOSE x \in DeclaredIn(name) : TRUE].subClassOf)

\* a list that ends in name, each element the first declared parent of the
\* next, and that starts at a class without parents or at a name that could
\* not be looked up
IsHierarchyOf(list, name) ==
    /\ list # <<>>
    /\ list[Len(list)] = name
    /\ \A x \in 1..(Len(list) - 1) :
          /\ DeclaredIn(list[x + 1]) # {}
          /\ DeclaredParents(list[x + 1]) # <<>>
          /\ list[x] = Head(DeclaredParents(list[x + 1]))
    /\ \/ DeclaredIn(list[1]) = {}
       \/ DeclaredParents(list[1]) = <<>>

\* C15: get_entity_hierarchy(name), for a class of the vocabulary, returns
\* the root-to-leaf list that ends in name, each element the first declared
\* parent of the next, the walk stopping exactly at a class without parent
\* or at a parent that cannot be looked up
C15_HierarchyIsParentChain ==
    (alast.op = "get_entity_hierarchy" /\ DeclaredIn(alast.name) # {}
        /\ alast.error # "SchemaOrgError") =>
        /\ alast.status = "returned"
        /\ IsHierarchyOf(alast.value, alast.name)

\* the names get_entity_hierarchy has looked up so far in the running call
LookedUp == acall.hierarchy \o <<acall.name>>

\* C30: a get_entity_hierarchy call looks up no entity twice, whatever the
\* vocabulary (so a walk over a chain of parents that closes on itself ends)
C30_OneLookupPerEntity ==
    apc = "walk" =>
        \A x, y \in 1..Len(LookedUp) : LookedUp[x] = LookedUp[y] => x = y

\* C16: when the AI call of an analyze_entity fails (network, provider,
\* unparseable or misshapen answer), analyze_entity still returns an
\* EntityAnalysis of the entity asked for
C16_AIFailureStillReturnsAnalysis ==
    (alast.op = "analyze_entity" /\ alast.ai \in AIFailures) =>
        /\ alast.status = "returned"
        /\ alast.value.entity.name = alast.name
        /\ alast.name \in DOMAIN analyzed_entities

\* an analyze_entity whose AI call failed has returned
C16_Witness ==
    /\ alast.op = "analyze_entity"
    /\ alast.ai \in AIFailures
    /\ alast.status = "returned"

\* the analysis carries no hint and neither it nor its entity is marked
NoAIContribution(analysis) ==
    /\ analysis.suggested_indexes = <<>>
    /\ analysis.unique_fields = <<>>
    /\ analysis.immutable_fields = <<>>
    /\ analysis.business_rules = <<>>
    /\ analysis.security_considerations = <<>>
    /\ analysis.ai_enhanced = FALSE
    /\ analysis.entity.metadata.ai_enhanced = FALSE

\* C17: the EntityAnalysis that analyze_entity returns when AI was not used
\* or failed has every hint collection empty, ai_enhanced false, and an
\* entity that is not marked AI-enhanced
C17_NoAIContributionWithoutAI ==
    (alast.op = "analyze_entity" /\ alast.status = "returned" /\ alast.ai # "answer") =>
        NoAIContribution(alast.value)

(* ----------------------------- circuit breaker ------------------------ *)
\* latest time on the breaker's clock, in seconds
MaxBreakerClock == 4

\* most make_request calls waiting for a response at once
MaxInFlight == 2

\* values of settings.FAILURE_THRESHOLD and settings.RECOVERY_TIMEOUT
FailureThresholds == {1, 2}
RecoveryTimeouts == {1, 2}

\* how a request that was sent ends: a response below 400, a response of 400
\* or above, httpx.RequestError, or any other exception
ResponseKinds == {"success", "http_error", "request_error", "other_error"}

\* a breaker that reopens already when the timeout has just elapsed
CanExecuteAtTimeout(st, last, t, timeout) ==
    IF st = "closed" THEN [result |-> TRUE, state |-> st]
    ELSE IF st = "open"
         THEN IF last.set /\ t - last.at >= timeout
              THEN [result |-> TRUE, state |-> "half_open"]
              ELSE [result |-> FALSE, state |-> st]
         ELSE [result |-> TRUE, state |-> st]

\* CircuitBreaker.can_execute: what it returns and the state it leaves
CanExecute(st, last, t, timeout) ==
    IF st = "closed" THEN [result |-> TRUE, state |-> st]
    ELSE IF st = "open"
         THEN IF last.set /\ t - last.at > timeout
              THEN [result |-> TRUE, state |-> "half_open"]
              ELSE [result |-> FALSE, state |-> st]
         ELSE [result |-> TRUE, state |-> st]

\* CircuitBreaker.record_success
RecordSuccess == [failure_count |-> 0, state |-> "closed"]

\* a breaker that opens one failure late
RecordFailureLate(count, threshold, st) ==
    [failure_count |-> count + 1,
     state |-> IF count + 1 > threshold THEN "open" ELSE st]

\* CircuitBreaker.record_failure: the count and the state it leaves
RecordFailure(count, threshold, st) ==
    [failure_count |-> count + 1,
     state |-> IF count + 1 >= threshold THEN "open" ELSE st]

BreakerCall(op, executed) ==
    [op |-> op, state_before |-> state, count_before |-> failure_count,
     waited |-> last_failure_time.set,
     elapsed |-> IF last_failure_time.set THEN bnow - last_failure_time.at ELSE 0,
     executed |-> executed, sent |-> executed]

\* a call admitted by can_execute sends its request on the manager's client
Launched(fl, trial) ==
    [fl EXCEPT ![[trial |-> trial, closed |-> FALSE]] = @ + 1]

\* the response of a call of kind f arrives
Landed(fl, f) == [fl EXCEPT ![f] = @ - 1]

\* HTTPClientManager.close: every call still waiting on the client now
\* waits on a closed one
ClientClosed(fl) ==
    [f \in FlightKinds |->
        IF f.closed THEN fl[f] + fl[[f EXCEPT !.closed = FALSE]] ELSE 0]

\* get_circuit_breaker(): one breaker per process, built from the settings
InitBreaker ==
    /\ ProjectUntouched
    /\ AuxIdle
    /\ FetcherIdle
    /\ AnalyzerIdle
    /\ LimiterIdle
    /\ failure_threshold \in FailureThresholds
    /\ recovery_timeout \in RecoveryTimeouts
    /\ failure_count = 0
    /\ last_failure_time = NoFailureTime
    /\ state = "closed"
    /\ bnow = 0
    /\ inflight = 0
    /\ flights = NoFlights
    /\ client = "none"
    /\ lastCall = NoBreakerCall

\* make_request up to client.request: CircuitBreakerError when can_execute
\* is false, else the HTTP request is sent on get_client()'s client (no
\* await lets another task run in between).  The tasks that
\* make_requests_batch(parallel=True) gathers each take this step.
MakeRequest ==
    /\ inflight < MaxInFlight
    /\ LET c == CanExecute(state, last_failure_time, bnow, recovery_timeout)
       IN  /\ state' = c.state
           /\ inflight' = IF c.result THEN inflight + 1 ELSE inflight
           /\ flights' = IF c.result
                         THEN Launched(flights, c.state = "half_open")
                         ELSE flights
           /\ client' = IF c.result THEN "open" ELSE client
           /\ lastCall' = BreakerCall("make_request", c.result)
    /\ UNCHANGED <<failure_threshold, recovery_timeout, failure_count,
                   last_failure_time, bnow>>
    /\ UNCHANGED notBreakerVars

\* make_request from the response on: record_success, record_failure, or
\* neither when another exception leaves the call; finally
\* client_manager.close()
Respond ==
    /\ inflight > 0
    /\ inflight' = inflight - 1
    /\ \E f \in FlightKinds :
          /\ flights[f] > 0
          /\ flights' = IF client = "open"
                        THEN ClientClosed(Landed(flights, f))
                        ELSE Landed(flights, f)
    /\ client' = "none"
    /\ \E kind \in ResponseKinds :
          IF kind = "success"
          THEN /\ failure_count' = RecordSuccess.failure_count
               /\ state' = RecordSuccess.state
               /\ lastCall' = BreakerCall("record_success", TRUE)
               /\ UNCHANGED last_failure_time
          ELSE IF kind \in {"http_error", "request_error"}
          THEN LET f == RecordFailure(failure_count, failure_threshold, state)
               IN  /\ failure_count' = f.failure_count
                   /\ state' = f.state
                   /\ last_failure_time' = FailureTime(bnow)
                   /\ lastCall' = BreakerCall("record_failure", TRUE)
          ELSE /\ lastCall' = BreakerCall("none", TRUE)
               /\ UNCHANGED <<failure_count, state, last_failure_time>>
    /\ UNCHANGED <<failure_threshold, recovery_timeout, bnow>>
    /\ UNCHANGED notBreakerVars

\* a second passes
BreakerTick ==
    /\ bnow < MaxBreakerClock
    /\ bnow' = bnow + 1
    /\ lastCall' = NoBreakerCall
    /\ UNCHANGED <<failure_threshold, recovery_timeout, failure_count,
                   last_failure_time, state, inflight, flights, client>>
    /\ UNCHANGED notBreakerVars

NextBreaker ==
    \/ MakeRequest
    \/ Respond
    \/ BreakerTick

SpecBreaker == InitBreaker /\ [][NextBreaker]_vars

\* C18: a make_request made while the breaker is open and no more than
\* recovery_timeout seconds after the last recorded failure gets false from
\* can_execute, sends no HTTP request and leaves the breaker open
C18_OpenWithinCooldownSendsNothing ==
    (/\ lastCall.op = "make_request"
     /\ lastCall.state_before = "open"
     /\ lastCall.elapsed <= recovery_timeout) =>
        /\ ~lastCall.executed
        /\ ~lastCall.sent
        /\ state = "open"

\* a make_request was refused exactly recovery_timeout seconds after the
\* failure that opened the breaker
C18_Witness ==
    /\ lastCall.op = "make_request"
    /\ lastCall.state_before = "open"
    /\ lastCall.waited
    /\ lastCall.elapsed = recovery_timeout
    /\ ~lastCall.sent

\* C19 (states): closed goes with fewer recorded failures than the
\* threshold, open and half_open with at least as many
BreakerStateKeyedByCount ==
    /\ state \in {"closed", "open", "half_open"}
    /\ state = "closed" => failure_count < failure_threshold
    /\ state \in {"open", "half_open"} => failure_count >= failure_threshold

\* C19 (steps): the breaker leaves closed exactly at the record_failure that
\* brings the count to the threshold; record_success always leaves it closed
\* with a count of 0
BreakerStepKeyedByCount ==
    /\ (state = "closed" /\ state' # "closed") =>
            /\ lastCall'.op = "record_failure"
            /\ failure_count' = failure_threshold
            /\ state' = "open"
    /\ (state = "closed" /\ lastCall'.op = "record_failure"
            /\ failure_count' = failure_threshold) => state' = "open"
    /\ (state = "closed" /\ lastCall'.op = "record_failure") =>
            failure_count' = failure_count + 1
    /\ lastCall'.op = "record_success" => (state' = "closed" /\ failure_count' = 0)

\* C19: the breaker's state is keyed by the failure count and the threshold,
\* in every state and at every step
C19_StateKeyedByFailureCount ==
    [][BreakerStateKeyedByCount /\ BreakerStateKeyedByCount' /\ BreakerStepKeyedByCount]_vars

\* a breaker with a threshold of 2 has just opened at its second failure in
\* a row
C19_Witness ==
    /\ failure_threshold = 2
    /\ lastCall.op = "record_failure"
    /\ lastCall.state_before = "closed"
    /\ lastCall.count_before = 1
    /\ state = "open"
    /\ failure_count = 2

(* ------------------------------ rate limiter -------------------------- *)
\* latest time on the limiter's clock, in ticks of 20 seconds
MaxLimiterClock == 5

\* timedelta(minutes=1), in ticks of 20 seconds
Window == 3

\* values of settings.RATE_LIMIT_PER_MINUTE
RateLimits == {1, 2}

\* is_allowed, "Clean old requests": the times later than a minute ago
Recent(times, t) == SelectSeq(times, LAMBDA req_time : req_time > t - Window)

\* self.requests[client_ip], or [] for an address not seen before
RequestsOf(all, client_ip) == IF client_ip \in DOMAIN all THEN all[client_ip] ELSE <<>>

\* a limiter that admits one call more
AtLimitPlusOne(kept, limit) == Len(kept) > limit

\* is_allowed: len(self.requests[client_ip]) >= limit
AtLimit(kept, limit) == Len(kept) >= limit

\* how many admitted calls of the address lie less than a minute before t
GrantedWithin(times, t) ==
    Cardinality({x \in 1..Len(times) : times[x] > t - Window /\ times[x] <= t})

\* rate_limiter = RateLimiter(), with the limit of the settings
InitLimiter ==
    /\ ProjectUntouched
    /\ AuxIdle
    /\ FetcherIdle
    /\ AnalyzerIdle
    /\ BreakerIdle
    /\ rate_limit \in RateLimits
    /\ requests = <<>>
    /\ lnow = 0
    /\ granted = [ip \in ClientIPs |-> <<>>]
    /\ lastCheck = NoCheck

\* rate_limiter.is_allowed(client_ip)
CallIsAllowed ==
    /\ \E client_ip \in ClientIPs :
          LET kept == Recent(RequestsOf(requests, client_ip), lnow)
              before == GrantedWithin(granted[client_ip], lnow)
          IN  IF AtLimit(kept, rate_limit)
              THEN /\ requests' = (client_ip :> kept) @@ requests
                   /\ lastCheck' = [client_ip |-> client_ip, at |-> lnow,
                                    before |-> before, allowed |-> FALSE]
                   /\ UNCHANGED granted
              ELSE /\ requests' = (client_ip :> Append(kept, lnow)) @@ requests
                   /\ granted' = [granted EXCEPT ![client_ip] = Append(@, lnow)]
                   /\ lastCheck' = [client_ip |-> client_ip, at |-> lnow,
                                    before |-> before, allowed |-> TRUE]
    /\ UNCHANGED <<rate_limit, lnow>>
    /\ UNCHANGED notLimiterVars

\* a tick passes
LimiterTick ==
    /\ lnow < MaxLimiterClock
    /\ lnow' = lnow + 1
    /\ lastCheck' = NoCheck
    /\ UNCHANGED <<rate_limit, requests, granted>>
    /\ UNCHANGED notLimiterVars

NextLimiter ==
    \/ CallIsAllowed
    \/ LimiterTick

SpecLimiter == InitLimiter /\ [][NextLimiter]_vars

\* admitted calls of an address in the window of one minute that starts at s
GrantedFrom(times, s) ==
    Cardinality({x \in 1..Len(times) : times[x] >= s /\ times[x] < s + Window})

\* C20: in every window of one minute at most rate_limit calls of one
\* address were admitted; a call is refused only when rate_limit calls of
\* its own address were admitted within the last minute, so other addresses
\* and refused calls use up nothing
C20_AtMostLimitPerWindowPerIP ==
    /\ \A ip \in ClientIPs : \A s \in 0..lnow :
          GrantedFrom(granted[ip], s) <= rate_limit
    /\ lastCheck.client_ip # "" =>
          /\ lastCheck.allowed <=> lastCheck.before < rate_limit
          /\ ~lastCheck.allowed => GrantedWithin(granted[lastCheck.client_ip], lnow)
                                      = lastCheck.before

\* an address is refused again after its window has slid once, while the
\* other address still has quota
C20_Witness ==
    /\ lastCheck.client_ip # ""
    /\ ~lastCheck.allowed
    /\ Len(granted[lastCheck.client_ip]) > rate_limit
    /\ \E ip \in ClientIPs \ {lastCheck.client_ip} :
          /\ granted[ip] # <<>>
          /\ GrantedWithin(granted[ip], lnow) < rate_limit

\* calls waiting for a response on a client that has been closed
OnClosedClient == flights[[trial |-> FALSE, closed |-> TRUE]]
                    + flights[[trial |-> TRUE, closed |-> TRUE]]

\* C28: no make_request waits for its response on a client that the
\* completion of another make_request has closed
C28_ClientNotClosedUnderRequest == OnClosedClient = 0

\* calls admitted in half_open whose outcome is not recorded yet
OutstandingTrials == flights[[trial |-> TRUE, closed |-> FALSE]]
                       + flights[[trial |-> TRUE, closed |-> TRUE]]

\* C29: once the recovery timeout has elapsed at most one trial request is
\* out at a time; a failure recorded in half_open reopens the breaker and a
\* success closes it
C29_OneTrialInHalfOpen ==
    /\ OutstandingTrials <= 1
    /\ (lastCall.op = "record_failure" /\ lastCall.state_before = "half_open")
            => state = "open"
    /\ (lastCall.op = "record_success" /\ lastCall.state_before = "half_open")
            => state = "closed"

(* ===================================================================== *)
(* generators/orchestrator.py: get_generation_summary and                *)
(* generate_auth_system                                                  *)
(* ===================================================================== *)
\* AuthGenerator.generate_all: type, destination and label of the fifteen
\* artifacts it builds, in order
AuthArtifacts ==
    << <<"model", "/models/user.py", "User">>,
       <<"schema", "/schemas/auth.py", "Auth">>,
       <<"schema", "/schemas/user.py", "User">>,
       <<"config", "/core/security.py", "Security">>,
       <<"config", "/core/dependencies.py", "Dependencies">>,
       <<"router", "/api/v1/endpoints/auth.py", "Auth">>,
       <<"repository", "/repositories/user_repository.py", "User">>,
       <<"service", "/services/user_service.py", "User">>,
       <<"config", "/core/exceptions.py", "Exceptions">>,
       <<"config", "/core/exception_handlers.py", "ExceptionHandlers">>,
       <<"config", "/middleware/logging.py", "Middleware">>,
       <<"config", "/middleware/rate_limit.py", "Middleware">>,
       <<"config", "/middleware/correlation_id.py", "Middleware">>,
       <<"config", "/utils/pagination.py", "Utils">>,
       <<"config", "/utils/filtering.py", "Utils">> >>

\* the i-th auth artifact as constructed (status pending)
AuthArtifact(i, valid) ==
    [type        |-> AuthArtifacts[i][1],
     path        |-> app_name \o AuthArtifacts[i][2],
     content     |-> RenderedContent("auth", AuthArtifacts[i][3], valid),
     entity_name |-> AuthArtifacts[i][3],
     language    |-> "python",
     status      |-> "pending"]

\* generate_all's closing loop: if self.validate_artifact(artifact):
\* artifact.mark_generated()
AuthValidated(a) ==
    IF validate_artifact_result(a) THEN mark_generated(validate_artifact(a))
    ELSE validate_artifact(a)

\* generate_auth_system: except Exception as e: raise CodeGenerationError
WrappedAuthError(e) ==
    [message |-> "Failed to generate authentication system: " \o Str(e),
     details |-> Details("", Str(e), <<>>)]

\* CodeArtifact.lines and CodeArtifact.size of rendered text: the text is
\* kept abstract, one line and one byte stand for each file
ArtifactLines(a) == 1
ArtifactSize(a) == 1

\* sum(a.lines for a in self.artifacts), sum(a.size for a in ...)
RECURSIVE TotalLines(_)
TotalLines(arts) ==
    IF arts = <<>> THEN 0 ELSE ArtifactLines(Head(arts)) + TotalLines(Tail(arts))

RECURSIVE TotalSize(_)
TotalSize(arts) ==
    IF arts = <<>> THEN 0 ELSE ArtifactSize(Head(arts)) + TotalSize(Tail(arts))

\* get_generation_summary: the dictionary built from self.artifacts
get_generation_summary(own) ==
    [total_artifacts |-> Len(own),
     total_lines     |-> TotalLines(own),
     total_size      |-> TotalSize(own),
     by_type         |-> [t \in {own[i].type : i \in 1..Len(own)} |->
                            Cardinality({i \in 1..Len(own) : own[i].type = t})]]

\* a caller invokes generate_auth_system(write_files): generate_all builds
\* and validates the fifteen artifacts, _validate_artifacts runs on them,
\* and the files are written if it passes
CallGenerateAuthSystem ==
    /\ pc = "idle"
    /\ calls < MaxCalls
    /\ \E w \in BOOLEAN, broken \in 0..1 :
          LET heap == [i \in 1..Len(AuthArtifacts) |->
                         AuthValidated(AuthArtifact(i, i # broken))]
              errors == ValidationErrors(heap)
          IN  /\ write_files' = w
              /\ objs' = heap
              /\ artifacts' = [i \in 1..Len(AuthArtifacts) |-> i]
              /\ outcome' = IF errors # <<>>
                            THEN Raised(WrappedAuthError(ValidationFailed(errors)))
                            ELSE Returned(heap)
              /\ lastOp' = IF errors # <<>>
                           THEN Op("raise", FALSE, {}, {}, NoRouterFile,
                                   WrappedAuthError(ValidationFailed(errors)))
                           ELSE PlainOp("return")
    /\ entity_name' = "Auth"
    /\ force' = FALSE
    /\ mode' = "generate_auth_system"
    /\ caller' = "none"
    /\ context_artifacts' = <<>>
    /\ k' = 1
    /\ cur' = <<>>
    /\ j' = 1
    /\ calls' = calls + 1
    /\ ops' = 0
    /\ UNCHANGED <<pc, diskVars, multiVars>>
    /\ UNCHANGED componentVars

\* a caller asks for get_generation_summary() between two calls
GetGenerationSummary ==
    /\ pc = "idle"
    /\ lastSummary' =
          [op       |-> "get_generation_summary",
           value    |-> get_generation_summary(self_artifacts),
           produced |-> Len(artifacts)]
    /\ UNCHANGED self_artifacts
    /\ UNCHANGED notSummaryVars

\* generate_entity, generate_auth_system and the summary, on a project
\* nothing has been generated into
InitSummary ==
    /\ fs = [p \in AllPaths |-> NoFile]
    /\ unwritable = {}
    /\ routerFile = TemplateRouterFile
    /\ generate_tests \in BOOLEAN
    /\ Quiescent

NextSummary ==
    \/ CallGenerateEntity
    \/ AnalyzeEntity
    \/ GenConstruct
    \/ GenValidate
    \/ GenMarkGenerated
    \/ GenAppend
    \/ ValidateWriteReturn
    \/ CallGenerateAuthSystem
    \/ GetGenerationSummary

SpecSummary == InitSummary /\ [][NextSummary]_vars

\* C22: a summary asked for after a generate_entity or
\* generate_auth_system call has ended accounts for the artifacts that
\* call produced: total_artifacts, the summed per-type counts, the lines
\* and the bytes are at least those of the call's artifacts.
C22_SummaryAccountsForArtifacts ==
    lastSummary.op = "get_generation_summary"
    => /\ lastSummary.value.total_artifacts >= lastSummary.produced
       /\ lastSummary.value.total_lines >= lastSummary.produced
       /\ lastSummary.value.total_size >= lastSummary.produced
       /\ lastSummary.produced > 0 => DOMAIN lastSummary.value.by_type # {}

(* ===================================================================== *)
(* templates/project.py: the generated get_db dependency                 *)
(* ===================================================================== *)
\* what a handler, a commit or a rollback can raise: an Exception
\* subclass (HTTPException, IntegrityError, ...) or a BaseException that
\* is none (asyncio.CancelledError when the request task is cancelled)
ExceptionKinds == {"Exception", "CancelledError"}

RaisedBy(kind, origin) == [kind |-> kind, origin |-> origin]

\* a get_db whose except clause catches nothing
ExceptNothing(kind) == FALSE

\* except Exception: which exceptions the clause catches
ExceptException(kind) == kind = "Exception"

\* where control goes when kind is raised inside the try block
AfterRaise(kind) == IF ExceptException(kind) THEN "rollback" ELSE "finally"

Logged(rec, op) == [rec EXCEPT !.log = Append(@, op)]

\* FastAPI resolves Depends(get_db): async with AsyncSessionLocal() as
\* session: try: yield session
GetDb(r) ==
    /\ session[r].pc \in {"idle", "done"}
    /\ session' = [session EXCEPT ![r] = [NoSession EXCEPT !.pc = "yield"]]
    /\ UNCHANGED notSessionVars

\* the request handler returns; the generator resumes after the yield
HandlerReturns(r) ==
    /\ session[r].pc = "yield"
    /\ session' = [session EXCEPT ![r].pc = "commit", ![r].handler = "returned"]
    /\ UNCHANGED notSessionVars

\* the request handler raises; the exception is thrown into the generator
\* at the yield
HandlerRaises(r) ==
    /\ session[r].pc = "yield"
    /\ \E kind \in ExceptionKinds :
          session' = [session EXCEPT ![r].pc = AfterRaise(kind),
                                     ![r].handler = "raised",
                                     ![r].pending = RaisedBy(kind, "handler")]
    /\ UNCHANGED notSessionVars

\* await session.commit(), which returns or raises
Commit(r) ==
    /\ session[r].pc = "commit"
    /\ \/ session' = [session EXCEPT ![r] = [Logged(@, "commit") EXCEPT !.pc = "finally"]]
       \/ \E kind \in ExceptionKinds :
             session' = [session EXCEPT ![r] =
                            [Logged(@, "commit") EXCEPT !.pc = AfterRaise(kind),
                                                        !.pending = RaisedBy(kind, "commit")]]
    /\ UNCHANGED notSessionVars

\* except Exception: await session.rollback(); raise -- the rollback
\* returns, and the caught exception is re-raised, or raises itself
Rollback(r) ==
    /\ session[r].pc = "rollback"
    /\ \/ session' = [session EXCEPT ![r] = [Logged(@, "rollback") EXCEPT !.pc = "finally"]]
       \/ \E kind \in ExceptionKinds :
             session' = [session EXCEPT ![r] =
                            [Logged(@, "rollback") EXCEPT !.pc = "finally",
                                                          !.pending = RaisedBy(kind, "rollback")]]
    /\ UNCHANGED notSessionVars

\* finally: await session.close()
FinallyClose(r) ==
    /\ session[r].pc = "finally"
    /\ session' = [session EXCEPT ![r] = [Logged(@, "close") EXCEPT !.pc = "aexit"]]
    /\ UNCHANGED notSessionVars

\* the async with block is left: AsyncSession.__aexit__ closes the session
\* again, and the pending exception, if any, reaches the caller
ContextExit(r) ==
    /\ session[r].pc = "aexit"
    /\ session' = [session EXCEPT ![r] =
                      [Logged(@, "close") EXCEPT !.pc = "done",
                                                 !.propagated = session[r].pending]]
    /\ UNCHANGED notSessionVars

InitSession ==
    /\ ProjectUntouched
    /\ ComponentsIdle
    /\ AuxIdle

NextSession ==
    \E r \in Requests :
       \/ GetDb(r)
       \/ HandlerReturns(r)
       \/ HandlerRaises(r)
       \/ Commit(r)
       \/ Rollback(r)
       \/ FinallyClose(r)
       \/ ContextExit(r)

SpecSession == InitSession /\ [][NextSession]_vars

Has(rec, op) == \E i \in 1..Len(rec.log) : rec.log[i] = op

\* every commit and rollback of the log precedes every close, and the log
\* ends with a close
ClosedAtTheEnd(rec) ==
    /\ rec.log # <<>>
    /\ rec.log[Len(rec.log)] = "close"
    /\ \A x, y \in 1..Len(rec.log) :
          (rec.log[x] = "close" /\ rec.log[y] # "close") => y < x

\* the handler, the commit or the rollback of the request raised
SomethingRaised(rec) == rec.pending # NoException

Field(name, primary, unique, foreign_key) ==
    [name |-> name, primary |-> primary, unique |-> unique, foreign_key |-> foreign_key]

\* EntityMetadata: name, fields and the field lists of its indexes
EntityMeta(name, fields, indexes) ==
    [name |-> name, fields |-> fields, indexes |-> indexes]

\* the metadata documents a caller loads: JSONMetadata.entities of each
JsonDocs == {"shop", "billing"}

DocEntities(doc) ==
    IF doc = "shop"
    THEN << EntityMeta("Customer",
                       << Field("id", TRUE, FALSE, FALSE),
                          Field("email", FALSE, TRUE, FALSE),
                          Field("created_at", FALSE, FALSE, FALSE) >>,
                       << >>),
            EntityMeta("Order",
                       << Field("id", TRUE, FALSE, FALSE),
                          Field("customer_id", FALSE, FALSE, TRUE) >>,
                       << <<"placed_at">> >>) >>
    ELSE << EntityMeta("Invoice",
                       << Field("id", TRUE, FALSE, FALSE),
                          Field("number", FALSE, TRUE, FALSE) >>,
                       << >>) >>

\* the entity names a document declares
DeclaredNames(doc) == {DocEntities(doc)[i].name : i \in 1..Len(DocEntities(doc))}

JsonEntityNames == UNION {DeclaredNames(doc) : doc \in JsonDocs}

\* loader.get_entity(name) on the loaded document
MetaOf(doc, name) ==
    LET at == {i \in 1..Len(DocEntities(doc)) : DocEntities(doc)[i].name = name}
    IN  DocEntities(doc)[CHOOSE i \in at : TRUE]

\* _convert_entity: the SchemaEntity built from one EntityMetadata;
\* ai_enhanced stands for entity.metadata["ai_enhanced"]
_convert_entity(entity_meta) ==
    [name |-> entity_meta.name, properties |-> entity_meta.fields,
     indexes |-> entity_meta.indexes, ai_enhanced |-> FALSE]

\* _extract_unique_fields: unique or primary fields in property order
_extract_unique_fields(entity) ==
    LET chosen == SelectSeq(entity.properties, LAMBDA f : f.unique \/ f.primary)
    IN  [i \in 1..Len(chosen) |-> chosen[i].name]

\* _extract_indexes: index fields, foreign keys and unique fields; the
\* list(set(...)) leaves the order open, so the hint is kept as a set
_extract_indexes(entity) ==
    UNION {{entity.indexes[i][x] : x \in 1..Len(entity.indexes[i])} :
              i \in 1..Len(entity.indexes)}
    \cup {entity.properties[i].name :
              i \in {x \in 1..Len(entity.properties) : entity.properties[x].foreign_key}}
    \cup {_extract_unique_fields(entity)[i] :
              i \in 1..Len(_extract_unique_fields(entity))}

\* _extract_immutable_fields: one entry for a primary key and one for a
\* field named created_at or id
RECURSIVE _extract_immutable_fields_of(_)
_extract_immutable_fields_of(fields) ==
    IF fields = <<>> THEN <<>>
    ELSE (IF Head(fields).primary THEN <<Head(fields).name>> ELSE <<>>)
         \o (IF Head(fields).name \in {"created_at", "id"}
             THEN <<Head(fields).name>> ELSE <<>>)
         \o _extract_immutable_fields_of(Tail(fields))

_extract_immutable_fields(entity) == _extract_immutable_fields_of(entity.properties)

\* EntityAnalysis(entity=..., unique_fields=..., ...) as the converter and
\* analyze_entity build it
TemplateAnalysis(entity) ==
    [entity            |-> entity,
     unique_fields     |-> _extract_unique_fields(entity),
     suggested_indexes |-> _extract_indexes(entity),
     immutable_fields  |-> _extract_immutable_fields(entity)]

\* convert_metadata, first pass: every entity of the document is converted
\* and stored in self.entity_cache under its name
RECURSIVE FirstPass(_, _)
FirstPass(cache, metas) ==
    IF metas = <<>> THEN cache
    ELSE FirstPass((Head(metas).name :> _convert_entity(Head(metas))) @@ cache,
                   Tail(metas))

\* convert_metadata, third pass: one analysis per entry of the cache
ThirdPass(cache) == [n \in DOMAIN cache |-> TemplateAnalysis(cache[n])]

\* what SchemaAnalystAgent.analyze returns: the hints of the AI answer, or
\* EntityAnalysis(entity=entity) with empty lists when the call failed
JsonAIOutcomes == {"answered", "failed"}

AgentAnalysis(entity, ai) ==
    IF ai = "answered"
    THEN [entity |-> entity, unique_fields |-> <<"id">>,
          suggested_indexes |-> {"id", "updated_at"}, immutable_fields |-> <<"id">>]
    ELSE [entity |-> entity, unique_fields |-> <<>>,
          suggested_indexes |-> {}, immutable_fields |-> <<>>]

\* _apply_ai_insights: entity.metadata.update({"ai_enhanced": True, ...})
_apply_ai_insights(entity) == [entity EXCEPT !.ai_enhanced = TRUE]

\* analyze_all / analyze_entity, "Merge AI insights": the three hint lists
\* are assigned from the agent's analysis, then _apply_ai_insights
MergeAIInsights(analysis, ai) ==
    [AgentAnalysis(analysis.entity, ai) EXCEPT
        !.entity = _apply_ai_insights(analysis.entity)]

\* the AI loop runs if use_ai and self.ai_enabled and self.ai_system
AIRuns(use_ai) == use_ai /\ jai_enabled

\* a caller constructs the analyzer with or without a configured AIConfig
ConstructJsonAnalyzer ==
    /\ jlast.op = "none"
    /\ jmetadata = "none"
    /\ ~jai_enabled
    /\ jai_enabled' = TRUE
    /\ UNCHANGED <<jmetadata, entity_cache, janalyzed_entities, entity_analyses, jlast>>
    /\ UNCHANGED notJsonVars

\* load_metadata(file_path): self.metadata = loader.load_from_file(...)
LoadMetadata ==
    /\ \E doc \in JsonDocs :
          /\ jmetadata' = doc
          /\ jlast' = [NoJsonCall EXCEPT !.op = "load_metadata", !.doc = doc]
    /\ UNCHANGED <<jai_enabled, entity_cache, janalyzed_entities, entity_analyses>>
    /\ UNCHANGED notJsonVars

\* converter.convert_metadata(metadata) called on the analyzer's converter
ConvertMetadata ==
    /\ \E doc \in JsonDocs :
          LET cache == FirstPass(entity_cache, DocEntities(doc)) IN
          /\ entity_cache' = cache
          /\ jlast' = [NoJsonCall EXCEPT !.op = "convert_metadata", !.doc = doc,
                                         !.returned = ThirdPass(cache)]
    /\ UNCHANGED <<jmetadata, jai_enabled, janalyzed_entities, entity_analyses>>
    /\ UNCHANGED notJsonVars

\* analyze_all(use_ai): convert_metadata on the loaded document, the
\* entities cached, then the AI loop over every analysis
AnalyzeAll ==
    /\ jmetadata # "none"
    /\ \E use_ai \in BOOLEAN :
          LET cache == FirstPass(entity_cache, DocEntities(jmetadata))
              converted == ThirdPass(cache)
          IN  \E ai \in [DOMAIN converted -> IF AIRuns(use_ai) THEN JsonAIOutcomes ELSE {"unused"}] :
                 LET merged == [n \in DOMAIN converted |->
                                   IF AIRuns(use_ai) THEN MergeAIInsights(converted[n], ai[n])
                                   ELSE converted[n]]
                 IN  /\ entity_cache' = [n \in DOMAIN cache |-> merged[n].entity]
                     /\ entity_analyses' = merged
                     /\ janalyzed_entities' = janalyzed_entities \cup DOMAIN merged
                     /\ jlast' = [op |-> "analyze_all", doc |-> jmetadata, name |-> "",
                                  use_ai |-> use_ai, ai |-> ai, returned |-> merged]
    /\ UNCHANGED <<jmetadata, jai_enabled>>
    /\ UNCHANGED notJsonVars

\* analyze_entity(entity_name, use_ai) for a name the document declares:
\* converted outside the cache, merged with the AI analysis, then stored
JsonAnalyzeEntity ==
    /\ jmetadata # "none"
    /\ \E nm \in DeclaredNames(jmetadata), use_ai \in BOOLEAN :
       \E ai \in IF AIRuns(use_ai) THEN JsonAIOutcomes ELSE {"unused"} :
          LET converted == TemplateAnalysis(_convert_entity(MetaOf(jmetadata, nm)))
              merged == IF AIRuns(use_ai) THEN MergeAIInsights(converted, ai)
                        ELSE converted
          IN  /\ entity_analyses' = (nm :> merged) @@ entity_analyses
              /\ janalyzed_entities' = janalyzed_entities \cup {nm}
              /\ jlast' = [op |-> "analyze_entity", doc |-> jmetadata, name |-> nm,
                           use_ai |-> use_ai, ai |-> (nm :> ai),
                           returned |-> (nm :> merged)]
    /\ UNCHANGED <<jmetadata, jai_enabled, entity_cache>>
    /\ UNCHANGED notJsonVars

\* close(): ai_system.close() and converter.clear_cache()
JsonClose ==
    /\ entity_cache' = EmptyMap
    /\ jlast' = [NoJsonCall EXCEPT !.op = "close"]
    /\ UNCHANGED <<jmetadata, jai_enabled, janalyzed_entities, entity_analyses>>
    /\ UNCHANGED notJsonVars

InitJson ==
    /\ ProjectUntouched
    /\ ComponentsIdle
    /\ AuxIdle

NextJson ==
    \/ ConstructJsonAnalyzer
    \/ LoadMetadata
    \/ ConvertMetadata
    \/ AnalyzeAll
    \/ JsonAnalyzeEntity
    \/ JsonClose

SpecJson == InitJson /\ [][NextJson]_vars

\* C26: the map convert_metadata(M) returns (directly or through
\* analyze_all) has as its key set exactly the entity names M declares.
C26_KeysAreDeclaredNames ==
    jlast.op \in {"convert_metadata", "analyze_all"}
    => DOMAIN jlast.returned = DeclaredNames(jlast.doc)

\* the three hint lists of an analysis
Hints(analysis) ==
    <<analysis.unique_fields, analysis.suggested_indexes, analysis.immutable_fields>>

\* C27: when analyze_all or analyze_entity ran with AI enabled and the AI
\* call failed for an entity, the analysis returned for that entity has
\* the unique-field, suggested-index and immutable-field hints of the
\* template-only analysis of the same entity.
C27_FailedAIKeepsTemplateHints ==
    \A n \in DOMAIN jlast.ai :
       (jlast.op \in {"analyze_all", "analyze_entity"} /\ jlast.ai[n] = "failed")
       => Hints(jlast.returned[n]) = Hints(TemplateAnalysis(jlast.returned[n].entity))

(* ===================================================================== *)
(* cli/commands/generate.py: generate entity, generate batch, auth       *)
(* ===================================================================== *)
MaxBatchEntities == 3

\* what the command finds where it looks for the project configuration:
\* no file (find_project_config returns None), a file that
\* load_project_config rejects with ConfigurationError, or a valid one
ProjectConfigs == {"missing", "invalid", "valid"}

\* the entity lists a batch is invoked with
BatchLists == UNION {[1..n -> EntityNames] : n \in 1..MaxBatchEntities}

\* what awaiting orchestrator.generate_entity gives the command: the call
\* ends in _validate_artifacts (or in the analysis) with CodeGenerationError
\* for every name, see ValidateWriteReturn and AnalyzeEntity
GenerateEntityResults(name) == {"CodeGenerationError"}

\* what awaiting orchestrator.generate_auth_system gives the command
GenerateAuthResults == {"CodeGenerationError"}

\* an invocation that has ended with raise typer.Exit(code) or by returning
Exited(inv, code) == [inv EXCEPT !.running = FALSE, !.exit_code = code]

\* the command as it stands after looking for the configuration: both
\* failures print a message and raise typer.Exit(1)
Configured(inv) ==
    IF inv.cfg = "valid" THEN inv
    ELSE Exited([inv EXCEPT !.failed = {"configuration"}], 1)

Invoked(command, cfg, entities) ==
    [NoInvocation EXCEPT !.command = command, !.cfg = cfg, !.entities = entities,
                         !.running = TRUE]

\* generate_batch, one pass of the loop body: on success the counter goes
\* up and the line "Batch generation complete: s/n" is printed (it stands
\* inside the loop); on any Exception "Failed" is printed and the loop
\* continues
BatchIteration(inv, res) ==
    IF res = "returned"
    THEN [inv EXCEPT !.i = @ + 1, !.success_count = @ + 1,
                     !.reports = Append(@, [after |-> inv.i,
                                            success |-> inv.success_count + 1,
                                            total |-> Len(inv.entities)])]
    ELSE [inv EXCEPT !.i = @ + 1, !.failed = @ \cup {"generation"}]

\* api-forge generate entity NAME: configuration, then generate_entity;
\* CodeGenerationError ends the command with typer.Exit(1)
InvokeGenerateEntity ==
    /\ ~cli.running
    /\ \E name \in EntityNames, cfg \in ProjectConfigs :
       \E res \in GenerateEntityResults(name) :
          LET inv == Configured(Invoked("entity", cfg, <<name>>)) IN
          cli' = IF ~inv.running THEN inv
                 ELSE IF res = "returned" THEN Exited([inv EXCEPT !.success_count = 1], 0)
                 ELSE Exited([inv EXCEPT !.failed = {"generation"}], 1)
    /\ UNCHANGED notCliVars

\* api-forge generate batch NAMES...: configuration, then the loop starts
InvokeGenerateBatch ==
    /\ ~cli.running
    /\ \E entities \in BatchLists, cfg \in ProjectConfigs :
          cli' = Configured(Invoked("batch", cfg, entities))
    /\ UNCHANGED notCliVars

\* for entity in entities: try: asyncio.run(_generate_entity_async(...))
BatchStep ==
    /\ cli.running
    /\ cli.command = "batch"
    /\ cli.i <= Len(cli.entities)
    /\ \E res \in GenerateEntityResults(cli.entities[cli.i]) :
          cli' = BatchIteration(cli, res)
    /\ UNCHANGED notCliVars

\* the loop is exhausted and generate_batch returns: exit status 0
BatchReturn ==
    /\ cli.running
    /\ cli.command = "batch"
    /\ cli.i > Len(cli.entities)
    /\ cli' = Exited(cli, 0)
    /\ UNCHANGED notCliVars

\* api-forge generate auth: configuration, the confirmation prompt, then
\* generate_auth_system; CodeGenerationError ends it with typer.Exit(1)
InvokeGenerateAuth ==
    /\ ~cli.running
    /\ \E cfg \in ProjectConfigs, confirmed \in BOOLEAN :
       \E res \in GenerateAuthResults :
          LET inv == Configured(Invoked("auth", cfg, <<>>)) IN
          cli' = IF ~inv.running THEN inv
                 ELSE IF ~confirmed THEN Exited(inv, 0)
                 ELSE IF res = "returned" THEN Exited(inv, 0)
                 ELSE Exited([inv EXCEPT !.failed = {"generation"}], 1)
    /\ UNCHANGED notCliVars

InitCli ==
    /\ ProjectUntouched
    /\ ComponentsIdle
    /\ AuxIdle

NextCli ==
    \/ InvokeGenerateEntity
    \/ InvokeGenerateBatch
    \/ BatchStep
    \/ BatchReturn
    \/ InvokeGenerateAuth

SpecCli == InitCli /\ [][NextCli]_vars

\* the command has ended
Ended == cli.command # "none" /\ ~cli.running

\* C23: a command in which a configuration or generation failure occurred
\* ends with exit status 1; a batch with a valid configuration ends only
\* after every name was processed, and the last thing it reported is the
\* success/total count taken after the last entity.
C23_FailureExitsWithOne ==
    Ended =>
       /\ cli.failed # {} => cli.exit_code = 1
       /\ (cli.command = "batch" /\ cli.cfg = "valid") =>
             /\ cli.i = Len(cli.entities) + 1
             /\ cli.reports # <<>>
             /\ cli.reports[Len(cli.reports)] =
                   [after |-> Len(cli.entities), success |-> cli.success_count,
                    total |-> Len(cli.entities)]

====
